---------------------------- MODULE Spec2Model ----------------------------
(***************************************************************************)
(* Model of the DCS Controller OPC UA server (dcsControllerServer.py): its  *)
(* SDO engine, its receive queue and the node scan, and of the simulated   *)
(* controller (CANopenForDCSController.py) that answers its requests.      *)
(***************************************************************************)
EXTENDS Integers, Sequences, FiniteSets, TLC

VARIABLES
    interface,      \* 'Kvaser' or 'AnaGate' (self.__interface)
    canMsgQueue,    \* self.__canMsgQueue; index 1 is the left end of the deque
    cnt,            \* self.__cnt, the Counter of the server
    call,           \* per thread: the sdoRead / sdoWrite call it is executing
    bus,            \* request frames written to the bus, not yet seen by a controller
    rx,             \* frames at the adapter, not yet delivered to the queue
    ncalls,         \* number of SDO calls started so far
    ninject,        \* number of frames other bus participants have produced so far
    present,        \* node ids of the controllers connected to the bus
    nodeIds,        \* self.__nodeIds
    scan,           \* the scanNodes call: its position, loop variable and history
    start,          \* the start call: its position, its variable count, its history
    pill2kill,      \* self.__pill2kill, the Event that ends the helper threads
    busOn,          \* self.__busOn
    isinit,         \* self.__isinit
    mirror,         \* attributes of the mirror objects (self.mypyDCs) that
                    \* differ from the value their constructor gave them
    published,      \* values of the OPC UA nodes that differ from the value
                    \* the node was created with
    run,            \* the run call: its position, loop variables and history
    sub,            \* the subscription handler: notifications and its call
    od,             \* an object dictionary entry and the accesses made to it
    chan,           \* self.__ch, the CAN channel of the server
    stop,           \* the calls of stop and __exit__: their number and outcome
    ctl,            \* a controller: the status of a chip, a request and its answer
    conn,           \* the getConnectedPSPPs call: its position and loop variables
    sync            \* the two locks: their holders, and where each thread is

\* the parts of the program that are exercised on their own
partVars == <<od, chan, stop, ctl, conn, sync>>

\* the state start and stop work on
startVars == <<start, pill2kill, busOn, isinit>>

\* the mirror objects, their nodes, and what works on them
mirrorVars == <<mirror, published, run, sub>>

\* the state of the server above the SDO engine
serverVars == <<present, nodeIds, scan, startVars, mirrorVars, partVars>>

vars == <<interface, canMsgQueue, cnt, call, bus, rx, ncalls, ninject,
          serverVars>>

----------------------------------------------------------------------------
(* Bounds of the model *)

\* SDO calls started in one behaviour
MaxCalls == 2
\* frames produced by other bus participants in one behaviour
MaxInject == 1
\* periodic frames produced in one behaviour of the receive path alone
MaxTraffic == 11
\* frames the adapter holds before the receive path takes them
MaxRx == 1
\* the node ids scanNodes probes are 1..MaxNodeId (range(1, 128) in the code)
MaxNodeId == 2
\* values written to nodes by clients in one behaviour
MaxWrites == 2
\* passes of the poll loop that come to their end in one behaviour
MaxSweeps == 3
\* sdoRead calls of the retry loop of getConnectedPSPPs in one behaviour
MaxConnReads == 3
\* scanNodes calls in one behaviour
MaxScans == 2
\* scans that start makes in one behaviour
MaxAttempts == 4
\* accesses made to one object dictionary entry in one behaviour
MaxOdOps == 3
\* calls of stop, of Channel.close and of Channel.openChannel in one behaviour
MaxStops == 2
MaxCloses == 2
MaxOpens == 1
\* SDO reads one controller answers on its own in one behaviour
MaxCtlReads == 2

----------------------------------------------------------------------------
(* Program constants *)

\* coc.COBID.SDO_RX = 0x600
SDO_RX == 1536
\* coc.COBID.SDO_TX = 0x580
SDO_TX == 1408
\* coc.MAX_DATABYTES
MAX_DATABYTES == 8
\* canlib.canMSG_ERROR_FRAME = 0x20
canMSG_ERROR_FRAME == 32
\* maxlen of the deque created in __init__
QueueMaxLen == 10
\* default timeout of scanNodes in milliseconds
ScanTimeout == 100

----------------------------------------------------------------------------
(* Integer helpers: Python's int operations *)

Pow2(n) == 2 ^ n

\* x >> n
ShiftRight(x, n) == x \div Pow2(n)

\* x << n
ShiftLeft(x, n) == x * Pow2(n)

Max(a, b) == IF a >= b THEN a ELSE b

\* a | b on Python's unbounded two's-complement integers
RECURSIVE BitOr(_, _)
BitOr(a, b) ==
    IF a = 0 THEN b
    ELSE IF b = 0 THEN a
    ELSE IF a = -1 \/ b = -1 THEN -1
    ELSE 2 * BitOr(a \div 2, b \div 2) + Max(a % 2, b % 2)

\* a & b for a, b >= 0
RECURSIVE BitAnd(_, _)
BitAnd(a, b) ==
    IF a = 0 \/ b = 0 THEN 0
    ELSE 2 * BitAnd(a \div 2, b \div 2) + (IF a % 2 = 1 /\ b % 2 = 1 THEN 1 ELSE 0)

\* int.from_bytes(bytes, 'little')
RECURSIVE IntFromBytesLittle(_)
IntFromBytesLittle(bytes) ==
    IF Len(bytes) = 0 THEN 0
    ELSE Head(bytes) + 256 * IntFromBytesLittle(Tail(bytes))

\* value.to_bytes(n, 'little') for 0 <= value < 256^n
RECURSIVE ToBytesLittle(_, _)
ToBytesLittle(value, n) ==
    IF n = 0 THEN <<>>
    ELSE <<value % 256>> \o ToBytesLittle(value \div 256, n - 1)

\* len(f'{value:X}'): number of hexadecimal digits of value >= 0
RECURSIVE HexLen(_)
HexLen(value) == IF value < 16 THEN 1 ELSE 1 + HexLen(value \div 16)

----------------------------------------------------------------------------
(* Frames, results, calls *)

\* (cobid, data, dlc, flag) as stored in the queue; the timestamp is not
\* read by any code modelled here
Frame(cobid, data, dlc, flag) ==
    [cobid |-> cobid, data |-> data, dlc |-> dlc, flag |-> flag]

\* ret[i] of the code (0-based)
Byte(data, i) == data[i + 1]

\* Values of Python. An int is kept in two parts, hi * 2^31 + val with
\* 0 <= val < 2^31, as the 32-bit words of the bus exceed the integers of
\* the model checker
None == [kind |-> "None", val |-> 0, hi |-> 0, exc |-> ""]
IntResult(v) == [kind |-> "int", val |-> v, hi |-> 0, exc |-> ""]
WideResult(hi, lo) == [kind |-> "int", val |-> lo, hi |-> hi, exc |-> ""]
BoolResult(b) ==
    [kind |-> IF b THEN "True" ELSE "False", val |-> 0, hi |-> 0, exc |-> ""]
Raised(e) == [kind |-> "raise", val |-> 0, hi |-> 0, exc |-> e]

Threads == {"poll", "handler"}

CounterKeys ==
    {"SDO read total", "SDO read request timeout",
     "SDO read response timeout", "SDO read abort",
     "SDO write total", "SDO write request timeout",
     "SDO write timeout", "SDO write abort", "Residual CAN messages",
     "Datachange events"}

Incr(c, key) == [c EXCEPT ![key] = @ + 1]

NoFrame == Frame(0, <<>>, 0, 0)

IdleCall ==
    [pc |-> "idle", op |-> "none", nodeId |-> 0, index |-> 0, subindex |-> 0,
     value |-> 0, timeout |-> 0, msg |-> <<>>, sent |-> <<>>, scanned |-> FALSE,
     ret |-> NoFrame, matched |-> FALSE, result |-> None, nvalid |-> 0]

----------------------------------------------------------------------------
(* Inputs *)

\* sdoRead(nodeId, index, subindex, timeout) as called by scanNodes
\* (0x1000:0, 100 ms), by run() (0x2200|.., 0x10|reg, 1000 ms), and with the
\* boundary timeout 0
ReadArgs ==
    { <<10, 4096, 0, 100>>,
      <<10, 8192, 0, 1000>>,
      <<10, 4096, 0, 0>>,
      <<42, 8704, 18, 1000>> }

\* sdoWrite(nodeId, index, subindex, value) with the default timeout 3000:
\* a register write, a value of eight hexadecimal digits, and writes the
\* controller rejects (read-only object, missing subindex, missing object)
WriteArgs ==
    { <<42, 8704, 18, 85>>,
      <<42, 8704, 18, 305419896>>,
      <<42, 4096, 0, 5>>,
      <<42, 8704, 127, 5>>,
      <<42, 12288, 0, 5>> }

\* frames produced by other participants of the bus: answers of node 10
\* (two data frames, an abort) and error frames
EnvFrames ==
    { Frame(SDO_TX + 10, <<75, 0, 16, 0, 146, 1, 0, 0>>, 8, 0),
      Frame(SDO_TX + 10, <<71, 0, 16, 0, 1, 2, 3, 0>>, 8, 0),
      Frame(SDO_TX + 10, <<128, 0, 32, 0, 0, 0, 2, 6>>, 8, 0),
      Frame(SDO_TX + 10, <<>>, 0, canMSG_ERROR_FRAME),
      Frame(0, <<>>, 0, canMSG_ERROR_FRAME) }

----------------------------------------------------------------------------
(* The receive queue *)

\* Variant that makes room at the left end, where the newest frame is
AppendLeftDropNewest(q, frame) ==
    IF Len(q) >= QueueMaxLen
    THEN <<frame>> \o SubSeq(q, 2, Len(q))
    ELSE <<frame>> \o q

\* deque.appendleft(frame) on a deque with maxlen QueueMaxLen: a full deque
\* discards the item at its right end
AppendLeft(q, frame) ==
    IF Len(q) >= QueueMaxLen
    THEN <<frame>> \o SubSeq(q, 1, QueueMaxLen - 1)
    ELSE <<frame>> \o q

\* del deque[i] (i is 0-based)
DelAt(q, i) == SubSeq(q, 1, i) \o SubSeq(q, i + 2, Len(q))

----------------------------------------------------------------------------
(* sdoRead and sdoWrite: the request *)

\* msg of sdoRead: [0x40, index low, index high, subindex, 0, 0, 0, 0]
ReadRequestMsg(index, subindex) ==
    LET idx == ToBytesLittle(index, 2)
    IN  <<64, idx[1], idx[2], subindex>> \o [i \in 1..(MAX_DATABYTES - 4) |-> 0]

\* datasize = len(f'{value:X}') // 2 + 1
WriteDatasize(value) == (HexLen(value) \div 2) + 1

\* msg[0] = (((0b00010 << 2) | (4 - datasize)) << 2) | 0b11
WriteCommandByte(value) ==
    BitOr(ShiftLeft(BitOr(ShiftLeft(2, 2), 4 - WriteDatasize(value)), 2), 3)

\* msg of sdoWrite
WriteRequestMsg(index, subindex, value) ==
    LET idx == ToBytesLittle(index, 2)
    IN  <<WriteCommandByte(value), idx[1], idx[2], subindex>>
            \o ToBytesLittle(value, 4)

\* bytes(data) / bytearray(data): every item must be in range(0, 256)
IsByteList(msg) == \A i \in 1..Len(msg) : msg[i] \in 0..255

----------------------------------------------------------------------------
(* sdoRead and sdoWrite: matching the response *)

ReadResponseCommands == {128, 67, 71, 75, 79}
WriteResponseCommands == {128, 96}

\* Variant of the test that accepts a frame too short to hold a command byte
MessageValidShort(cmds, f, nodeId, index, subindex) ==
    IF f.cobid # SDO_TX + nodeId THEN "invalid"
    ELSE IF Len(f.data) < 4 THEN "valid"
    ELSE IF Byte(f.data, 0) \notin cmds THEN "invalid"
    ELSE IF IntFromBytesLittle(<<Byte(f.data, 1), Byte(f.data, 2)>>) # index
         THEN "invalid"
    ELSE IF Byte(f.data, 3) # subindex THEN "invalid"
    ELSE "valid"

\* The conjunction evaluated for one queued frame, left to right with
\* Python's short-circuit: "IndexError" when a byte is read that the frame's
\* data does not have
MessageValid(cmds, f, nodeId, index, subindex) ==
    IF f.cobid # SDO_TX + nodeId THEN "invalid"
    ELSE IF Len(f.data) < 1 THEN "IndexError"
    ELSE IF Byte(f.data, 0) \notin cmds THEN "invalid"
    ELSE IF Len(f.data) < 3 THEN "IndexError"
    ELSE IF IntFromBytesLittle(<<Byte(f.data, 1), Byte(f.data, 2)>>) # index
         THEN "invalid"
    ELSE IF Len(f.data) < 4 THEN "IndexError"
    ELSE IF Byte(f.data, 3) # subindex THEN "invalid"
    ELSE IF f.dlc # 8 THEN "invalid"
    ELSE "valid"

MessageValidRead(f, nodeId, index, subindex) ==
    MessageValid(ReadResponseCommands, f, nodeId, index, subindex)

MessageValidWrite(f, nodeId, index, subindex) ==
    MessageValid(WriteResponseCommands, f, nodeId, index, subindex)

MessageValidFor(c, f) ==
    IF c.op = "read"
    THEN MessageValidRead(f, c.nodeId, c.index, c.subindex)
    ELSE MessageValidWrite(f, c.nodeId, c.index, c.subindex)

\* the positions (1-based) of the frames of the queue that are valid for
\* the call c
ValidAt(c, q) == {i \in 1..Len(q) : MessageValidFor(c, q[i]) = "valid"}

\* Variant of the loop that goes over the queue from its right end
ScanStopFromRight(c, q) ==
    LET stops == {i \in 1..Len(q) : MessageValidFor(c, q[i]) # "invalid"}
    IN  IF stops = {} THEN -1
        ELSE (CHOOSE i \in stops : \A j \in stops : i >= j) - 1

\* The for loop over zip(range(len(queue)), queue): the 0-based position of
\* the first frame at which the loop stops (a valid frame, or one whose
\* test raises), or -1 when the loop runs to its end
ScanStop(c, q) ==
    LET stops == {i \in 1..Len(q) : MessageValidFor(c, q[i]) # "invalid"}
    IN  IF stops = {} THEN -1
        ELSE (CHOOSE i \in stops : \A j \in stops : i <= j) - 1

\* Variant that deletes the left end whatever the position of the match
DelIndexLeft(i) == 0

\* position deleted by "del self.__canMsgQueue[i]" for a match at position i
DelIndex(i) == i

\* Variant of the loop condition with <= for <
LoopMayRunInclusive(timeout) == 0 <= timeout

\* while time.perf_counter() - t0 < timeout / 1000: whether the condition
\* can hold at all (the elapsed time is >= 0)
LoopMayRun(timeout) == 0 < timeout

\* Variant that takes the n field of the command byte as the byte count
NDatabytesField(ret) == BitAnd(ShiftRight(Byte(ret, 0), 2), 3)

\* nDatabytes = 4 - ((ret[0] >> 2) & 0b11)
NDatabytes(ret) == 4 - BitAnd(ShiftRight(Byte(ret, 0), 2), 3)

\* int.from_bytes(bytes, 'little') of at most four bytes, in two parts
WideFromBytesLittle(bytes) ==
    WideResult(IF Len(bytes) >= 4 THEN bytes[4] \div 128 ELSE 0,
               IntFromBytesLittle([i \in 1..Len(bytes) |->
                                     IF i = 4 THEN bytes[i] % 128 ELSE bytes[i]]))

\* int.from_bytes(data, 'little') for data = ret[4], ..., ret[4 + n - 1]
ReadData(ret) ==
    WideFromBytesLittle([i \in 1..NDatabytes(ret) |-> Byte(ret, 4 + i - 1)])

\* whether the frame taken as the response is an abort (ret[0] == 0x80)
IsAbort(ret) == Len(ret) > 0 /\ Byte(ret, 0) = 128

\* Variant of the result without the test for an abort
ReadResultNoAbort(ret) ==
    IF Len(ret) = 0 THEN Raised("IndexError")
    ELSE IF Len(ret) < 4 + (4 - BitAnd(ShiftRight(Byte(ret, 0), 2), 3))
    THEN Raised("IndexError")
    ELSE WideFromBytesLittle(
            [i \in 1..(4 - BitAnd(ShiftRight(Byte(ret, 0), 2), 3))
                |-> Byte(ret, 4 + i - 1)])

\* what sdoRead does with the frame taken as the response: None for an
\* abort, else the decoded value; reading a byte the data does not have
\* raises IndexError
ReadResult(ret) ==
    IF Len(ret) = 0 THEN Raised("IndexError")
    ELSE IF Byte(ret, 0) = 128 THEN None
    ELSE IF Len(ret) < 4 + NDatabytes(ret) THEN Raised("IndexError")
    ELSE ReadData(ret)

\* what sdoWrite does with the frame taken as the response
WriteResult(ret) ==
    IF Len(ret) = 0 THEN Raised("IndexError")
    ELSE BoolResult(Byte(ret, 0) # 128)

----------------------------------------------------------------------------
(* The simulated controller (CANopenForDCSController.py) *)

\* default nodeId of CANopenDCSController
ControllerNodeId == 42

\* sdoAbortCodes: COMMAND 0x05040001, NO_OBJECT 0x06020000,
\* SUBINDEX 0x06090011, ACCESS 0x06010002
SAC_COMMAND == 84148225
SAC_NO_OBJECT == 100794368
SAC_SUBINDEX == 101253137
SAC_ACCESS == 100728834

\* The object dictionary loaded from the EDS: 0x1000 (VAR, ro), 0x2000
\* (ARRAY of 5), 0x2001 (VAR, rw), 0x22xx (RECORD of 0x28 subentries),
\* one RECORD per chip, 0x2200 .. 0x223F
OdIndices == {4096, 8192, 8193} \cup (8704..8767)

OdIsVar(index) == index \in {4096, 8193}

\* len(odEntry) of a compound entry
OdLen(index) ==
    IF index = 8192 THEN 5 ELSE IF index \in 8704..8767 THEN 40 ELSE 0

\* odEntry.__contains__
OdContainsSub(index, subindex) ==
    IF OdIsVar(index) THEN subindex = 0 ELSE subindex < OdLen(index)

\* attribute of odEntry[subindex] (the entry itself for a VAR and key 0)
OdAttribute(index, subindex) ==
    IF index = 4096 THEN "RO"
    ELSE IF index = 8193 THEN "RW"
    ELSE IF index = 8192 THEN (IF subindex = 0 THEN "RO" ELSE "RW")
    ELSE IF subindex \in 16..28 \/ subindex = 2 THEN "RW"
    ELSE "RO"

\* values gather_value draws for a register (rdm.randrange)
RegisterValues == {0, 3}

\* value of object 0x1000 (device type) in the dictionary of the controller
\* with the given node id
DeviceType(nodeId) == IF nodeId = 1 THEN 0 ELSE 402

\* the values 2**9 + rdm.randrange(2**5) that gather_value draws for the
\* temperature, for voltage 1 and for voltage 2 of the monitoring word
MonTemperatures == {520}
MonVoltages1 == {513, 530}
MonVoltages2 == {512, 543}

\* the monitoring word of gather_value: (1 << 31) | t | v1 | v2 with t and
\* v1 shifted by 20 and 10
MonWord(t, v1, v2) ==
    WideResult(1, BitOr(BitOr(ShiftLeft(t, 20), ShiftLeft(v1, 10)), v2))

MonWords ==
    { MonWord(t, v1, v2) :
        t \in MonTemperatures, v1 \in MonVoltages1, v2 \in MonVoltages2 }

\* the values gather_value can return for an object: the monitoring word
\* for subindex 1 of a chip, the connection state kept in the dictionary for
\* subindex 2 of a chip, a random value for a register
GatherValues(nodeId, index, subindex) ==
    IF index = 4096 THEN {IntResult(DeviceType(nodeId))}
    ELSE IF index \in 8704..8767 /\ subindex = 1 THEN MonWords
    ELSE IF index \in 8704..8767 /\ subindex = 2
    THEN {IntResult(0), IntResult(1)}
    ELSE {IntResult(v) : v \in RegisterValues}

\* sdo_abort_message(index, subindex, abort_code); index is a pair of bytes
SdoAbortMessage(index, subindex, abort_code) ==
    <<128, index[1], index[2], subindex>> \o ToBytesLittle(abort_code, 4)

\* val.bit_length()
RECURSIVE BitLength(_)
BitLength(val) == IF val = 0 THEN 0 ELSE 1 + BitLength(val \div 2)

\* val.bit_length() of an int kept in two parts
BitLengthWide(val) ==
    IF val.hi = 0 THEN BitLength(val.val) ELSE 31 + BitLength(val.hi)

\* val.to_bytes(4, 'little') of an int below 2^32 kept in two parts
ToBytesWide(val) ==
    LET low == ToBytesLittle(val.val, 4)
    IN  [low EXCEPT ![4] = @ + 128 * val.hi]

\* Variant of dz that rounds down
ParseValDatasizeFloor(val) == BitLengthWide(val) \div 8

\* dz of parse_val for an int: ceil(val.bit_length() / 8)
ParseValDatasize(val) == (BitLengthWide(val) + 7) \div 8

\* ret of process_sdo_read for a request msg with msg[0] == 0x40 that is
\* answered with the value val
SdoReadResponse(msg, val) ==
    LET index == IntFromBytesLittle(<<Byte(msg, 1), Byte(msg, 2)>>)
        idx == ToBytesLittle(index, 2)
        subindex == Byte(msg, 3)
        datasize == ParseValDatasize(val)
    IN  IF Byte(msg, 0) # 64
        THEN SdoAbortMessage(idx, subindex, SAC_COMMAND)
        ELSE IF index \notin OdIndices \/ index = 8448
        THEN SdoAbortMessage(idx, subindex, SAC_NO_OBJECT)
        ELSE IF ~OdContainsSub(index, subindex)
        THEN SdoAbortMessage(idx, subindex, SAC_SUBINDEX)
        ELSE <<BitOr(ShiftLeft(BitOr(ShiftLeft(4, 2),
                                     BitAnd(4 - datasize, 3)), 2), 3),
               Byte(msg, 1), Byte(msg, 2), Byte(msg, 3)>>
               \o ToBytesWide(val)

\* data of process_sdo_write: n = (cmd >> 2) & 0b11, datasize = 4 - n,
\* data = int.from_bytes(msg[4:(4 + datasize)], 'little')
SdoWriteData(msg) ==
    LET datasize == 4 - BitAnd(ShiftRight(Byte(msg, 0), 2), 3)
    IN  IntFromBytesLittle([i \in 1..datasize |-> Byte(msg, 4 + i - 1)])

\* ret of process_sdo_write for a request msg
SdoWriteResponse(msg) ==
    LET cmd == Byte(msg, 0)
        index == IntFromBytesLittle(<<Byte(msg, 1), Byte(msg, 2)>>)
        subindex == Byte(msg, 3)
        swapped == <<Byte(msg, 2), Byte(msg, 1)>>
    IN  IF cmd \notin {35, 39, 43, 47}
        THEN SdoAbortMessage(swapped, subindex, SAC_COMMAND)
        ELSE IF index \notin OdIndices
        THEN SdoAbortMessage(swapped, subindex, SAC_NO_OBJECT)
        ELSE IF ~OdContainsSub(index, subindex)
        THEN SdoAbortMessage(swapped, subindex, SAC_SUBINDEX)
        ELSE IF OdAttribute(index, subindex) \in {"RO", "CONST"}
        THEN SdoAbortMessage(swapped, subindex, SAC_ACCESS)
        ELSE <<96, Byte(msg, 1), Byte(msg, 2), Byte(msg, 3), 0, 0, 0, 0>>

----------------------------------------------------------------------------
(* scanNodes: data *)

\* list(range(1, 128)), with the bound of the model for 127
AllNodeIds == [i \in 1..MaxNodeId |-> i]

\* Variant that removes by position (list.pop(x - 1))
RemoveAt(list, x) ==
    IF x <= Len(list)
    THEN SubSeq(list, 1, x - 1) \o SubSeq(list, x + 1, Len(list))
    ELSE list

\* list.remove(x): the list without the first item equal to x
Remove(list, x) ==
    LET at == {i \in 1..Len(list) : list[i] = x}
        i == CHOOSE i \in at : \A j \in at : i <= j
    IN  IF at = {} THEN list
        ELSE SubSeq(list, 1, i - 1) \o SubSeq(list, i + 1, Len(list))

\* Variant of the test with the truth value of dev_t (if not dev_t)
ScanKeepTruthy(dev_t) ==
    dev_t.kind = "int" /\ (dev_t.val # 0 \/ dev_t.hi # 0)

\* the test "dev_t is None" of scanNodes, negated: the node stays in the list
ScanKeep(dev_t) == dev_t # None

\* start has not been called
IdleStart == [pc |-> "idle", count |-> 0, attempts |-> 0]

\* scanNodes is not running and has not run
IdleScan ==
    [pc |-> "idle", nodeId |-> 0, runs |-> 0, got |-> {}, asked |-> <<>>,
     prev |-> <<>>, prevGot |-> {}]

NewCall(op, nodeId, index, subindex, value, timeout, msg) ==
    [IdleCall EXCEPT !.pc = "request", !.op = op, !.nodeId = nodeId,
                     !.index = index, !.subindex = subindex,
                     !.value = value, !.timeout = timeout, !.msg = msg]

\* the sdoRead call scanNodes makes for a node id
ScanRead(nodeId) ==
    NewCall("read", nodeId, 4096, 0, 0, ScanTimeout, ReadRequestMsg(4096, 0))

----------------------------------------------------------------------------
(* The mirror objects and the poll loop: data *)

\* range(4) of the loops over the SCB masters and range(16) of the loops
\* over the chips of one SCB master
NumSCB == 4
NumPSPP == 16

\* An attribute of a mirror object of the controller nodeId: attr names the
\* attribute (ADCTRIM, ConnectedPSPPs, Status, MonitoringData, Regs), scb and
\* pspp the object, item the position of the name in coc.PSPPMONVALS or in
\* coc.PSPP_REGISTERS
Path(attr, nodeId, scb, pspp, item) ==
    [attr |-> attr, nodeId |-> nodeId, scb |-> scb, pspp |-> pspp,
     item |-> item]

\* the value the constructor of the mirror object gives the attribute:
\* MySCBMaster.ConnectedPSPPs = 0, MyPSPP.Status = False, None otherwise
Default(path) ==
    IF path.attr = "ConnectedPSPPs" THEN IntResult(0)
    ELSE IF path.attr = "Status" THEN BoolResult(FALSE)
    ELSE None

\* every attribute has the value of its constructor
NoOverrides == [path \in {} |-> None]

\* the value of an attribute (getattr), and of a node (get_value)
Get(m, path) == IF path \in DOMAIN m THEN m[path] ELSE Default(path)

\* the values after an assignment to the attribute (setattr), and after
\* set_value on its node
Set(m, path, v) ==
    LET dom == IF v = Default(path) THEN DOMAIN m \ {path}
               ELSE DOMAIN m \cup {path}
    IN  [q \in dom |-> IF q = path THEN v ELSE m[q]]

\* f'{val:b}': the binary digits of val, most significant first
RECURSIVE FormatB(_)
FormatB(val) ==
    IF val < 2 THEN <<val>> ELSE Append(FormatB(val \div 2), val % 2)

\* f'{val:016b}': the binary digits, filled with zeros on the left to a
\* width of 16
Format016b(val) ==
    LET digits == FormatB(val)
    IN  [i \in 1..(Max(16, Len(digits)) - Len(digits)) |-> 0] \o digits

\* s[::-1]
Reversed(s) == [i \in 1..Len(s) |-> s[Len(s) + 1 - i]]

\* [i for i in range(16) if int(f'{val:016b}'[::-1][i])]
ConnectedPSPPsOf(val) ==
    LET s == Reversed(Format016b(val))
    IN  SelectSeq([i \in 1..NumPSPP |-> i - 1], LAMBDA i : s[i + 1] # 0)

\* index = 0x2200 | (scb << 4) | pspp
PSPPIndex(scb, pspp) == BitOr(BitOr(8704, ShiftLeft(scb, 4)), pspp)

\* (x >> n) & (2**10 - 1) for an int x kept in two parts and n <= 21: the
\* bits n .. n + 9 of x, of which bit 31 is the lowest bit of x.hi
ShiftRightAnd10(x, n) ==
    BitAnd(ShiftRight(x.val, n) + (IF n = 0 THEN 0 ELSE ShiftLeft(x.hi % 2, 31 - n)),
           Pow2(10) - 1)

\* Variant that takes the three values one bit higher, from bits 1, 11, 21
MonValsFromBit1(monVals) ==
    [i \in 1..3 |-> ShiftRightAnd10(monVals, (i - 1) * 10 + 1)]

\* vals = [(monVals >> i * 10) & (2**10 - 1) for i in range(3)]
MonVals(monVals) ==
    [i \in 1..3 |-> ShiftRightAnd10(monVals, (i - 1) * 10)]

\* bool(x) of the value sdoRead returned
Bool(x) == x.kind = "int" /\ (x.val # 0 \/ x.hi # 0)

\* run has not been called; sweeps is the number of passes of "while True"
\* that have come to their end
IdleRun ==
    [pc |-> "idle", node |-> 0, scb |-> 0, chips |-> <<>>, pos |-> 0,
     visited |-> <<>>, leaf |-> 0, exc |-> "", sweeps |-> 0]

\* no notification is pending and the handler is not running
IdleSub ==
    [pc |-> "idle", queue |-> <<>>, path |-> Path("", 0, 0, 0, 0),
     val |-> None, mirrorval |-> None, outcome |-> "", nwrites |-> 0]

\* getConnectedPSPPs has not been called; node and scb are the loop variables,
\* reads is the number of sdoRead calls of "while val is None" so far
IdleConn ==
    [pc |-> "idle", node |-> 0, scb |-> 0, reads |-> 0, exc |-> ""]

\* the threads that take the locks: the receive thread (readCanMessages, or
\* the thread of the AnaGate library that calls cbFunc), the thread in run,
\* the thread of the subscription handler, and the thread that calls stop
SyncThreads == {"recv", "poll", "handler", "main"}

\* self.__lock and self.__kvaserLock are free and no thread has begun
IdleSync ==
    [lock |-> "", kvaserLock |-> "",
     pc |-> [t \in SyncThreads |-> "idle"]]

\* the sdoRead call run makes for a leaf of a chip
RunRead(nodeId, index, subindex, timeout) ==
    NewCall("read", nodeId, index, subindex, 0, timeout,
            ReadRequestMsg(index, subindex))

----------------------------------------------------------------------------
(* The subscription handler: data *)

\* the mirror class an attribute belongs to (type(self.obj))
ObjType(path) ==
    CASE path.attr = "Regs" -> "MyRegs"
      [] path.attr = "ConnectedPSPPs" -> "MySCBMaster"
      [] path.attr \in {"ADCTRIM", "NodeId"} -> "MyDCSController"
      [] path.attr = "MonitoringData" -> "MyMonitoringData"
      [] OTHER -> "MyPSPP"

\* index and subindex datachange_notification derives for an attribute of
\* MyRegs, of MySCBMaster, and for ADCTRIM of MyDCSController
SdoTarget(path) ==
    CASE ObjType(path) = "MyRegs" ->
            [index |-> PSPPIndex(path.scb, path.pspp),
             subindex |-> BitOr(16, path.item)]
      [] ObjType(path) = "MySCBMaster" ->
            [index |-> 8192, subindex |-> 1 + path.scb]
      [] OTHER -> [index |-> 8193, subindex |-> 0]

\* whether datachange_notification reaches its sdoWrite for the attribute:
\* a register that is not read-only in the dictionary of the server, the
\* bitmap of an SCB master, ADCTRIM
Forwarded(path) ==
    CASE ObjType(path) = "MyRegs" ->
            OdAttribute(SdoTarget(path).index, SdoTarget(path).subindex) # "RO"
      [] ObjType(path) = "MySCBMaster" -> TRUE
      [] ObjType(path) = "MyDCSController" -> path.attr = "ADCTRIM"
      [] OTHER -> FALSE

\* the number a Python int or bool stands for, in two parts
Num(x) == IF x.kind = "True" THEN <<0, 1>> ELSE <<x.hi, x.val>>

\* a == b for values that are None, int or bool
PyEq(a, b) ==
    IF a.kind = "None" \/ b.kind = "None" THEN a.kind = b.kind
    ELSE Num(a) = Num(b)

\* Variant of the test that takes every data change for one of a client
OriginIsServerNever(val, mirrorval) == FALSE

\* the test "val == mirrorval" by which datachange_notification takes a
\* data change to originate from the server
OriginIsServer(val, mirrorval) == PyEq(val, mirrorval)

\* Variant of the test that takes every returned value but None as success
NotNone(x) == x.kind # "None"

\* the truth value of what sdoWrite returned (if self.obj.server.sdoWrite(...))
Truthy(x) == x.kind = "True" \/ (x.kind = "int" /\ (x.val # 0 \/ x.hi # 0))

\* the attributes clients write in the model: register 2 of chip 0 of SCB
\* master 0, the bitmap of SCB master 0, ADCTRIM, the status of chip 0
ExternalPaths ==
    { Path("Regs", ControllerNodeId, 0, 0, 2),
      Path("ConnectedPSPPs", ControllerNodeId, 0, 0, 0),
      Path("ADCTRIM", ControllerNodeId, 0, 0, 0),
      Path("Status", ControllerNodeId, 0, 0, 0) }

\* the values clients write to the node of an attribute
ExternalValues(path) ==
    CASE path.attr = "Regs" -> {IntResult(85), None}
      [] path.attr = "ConnectedPSPPs" -> {IntResult(5), IntResult(0)}
      [] path.attr = "ADCTRIM" -> {IntResult(7), IntResult(305419896)}
      [] OTHER -> {BoolResult(TRUE)}

\* a data change notification: the node of the attribute and its new value
Notification(path, val) == [path |-> path, val |-> val]

\* the sdoWrite call datachange_notification makes (timeout 3000)
HandlerWrite(path, val) ==
    NewCall("write", path.nodeId, SdoTarget(path).index,
            SdoTarget(path).subindex, val.val, 3000,
            WriteRequestMsg(SdoTarget(path).index, SdoTarget(path).subindex,
                            val.val))

----------------------------------------------------------------------------
(* The object dictionary (objectDictionary.py): one entry and its accessors *)

\* the members of ATTR an entry is created with; "None" is the attribute of
\* a reserved subentry
OdAttributes == {"RO", "WO", "RW", "CONST"}

\* an attribute of an object that has not been assigned yet
Unset == [kind |-> "unset", val |-> 0, hi |-> 0, exc |-> ""]

\* the values written to an entry
OdValues == {IntResult(1), IntResult(2)}

\* odEntry.__init__ for a VAR entry: the default is stored as self.__val
NewOdEntry(attribute, default, direct_access) ==
    [cls |-> "odEntry", attribute |-> attribute, reserved |-> FALSE,
     direct_access |-> direct_access, default |-> default,
     val |-> default, value |-> Unset,
     op |-> "", path |-> "", arg |-> None, out |-> None, lastset |-> Unset,
     nops |-> 0]

\* odSubEntry.__init__: the default is stored as self.__value
NewOdSubEntry(attribute, default, reserved, direct_access) ==
    [cls |-> "odSubEntry", attribute |-> attribute, reserved |-> reserved,
     direct_access |-> direct_access, default |-> default,
     val |-> Unset, value |-> default,
     op |-> "", path |-> "", arg |-> None, out |-> None, lastset |-> Unset,
     nops |-> 0]

\* the entries from_eds and addSubEntry create: VAR entries, subentries and the
\* reserved subentries that fill a gap
OdObjects ==
    {NewOdEntry(a, IntResult(0), d) : a \in OdAttributes, d \in BOOLEAN}
    \cup {NewOdSubEntry(a, IntResult(0), FALSE, d) :
              a \in OdAttributes, d \in BOOLEAN}
    \cup {NewOdSubEntry("None", None, TRUE, d) : d \in BOOLEAN}

\* Variant of the test that lets every write pass
MayWriteAlways(attribute, direct_access) == TRUE

\* the test of the two value setters
MayWrite(attribute, direct_access) ==
    attribute = "WO" \/ attribute = "RW" \/ direct_access

\* the value setter of odEntry and odSubEntry: both assign self.__value
SetValue(e, val) ==
    IF MayWrite(e.attribute, e.direct_access)
    THEN [e EXCEPT !.value = val, !.out = None, !.lastset = val]
    ELSE [e EXCEPT !.out = Raised("AttributeError")]

\* the value getter: odEntry returns self.__val, odSubEntry self.__value
GetValue(e) ==
    IF e.attribute = "WO" THEN Raised("AttributeError")
    ELSE IF e.cls = "odEntry" THEN e.val
    ELSE IF e.reserved THEN Raised("AttributeError")
    ELSE e.value

\* the ways to write an entry: its value setter, item assignment on the
\* top-level entry and item assignment on the dictionary
WritePaths(e) ==
    IF e.cls = "odEntry" THEN {"value", "odEntry[key]", "od[index]"}
    ELSE {"value", "odEntry[key]"}

\* odEntry.__setitem__ assigns self.__subentries[key].value, and
\* __subentries is None in a VAR entry; objectDictionary.__setitem__ assigns
\* self.__entries[index].value
Write(e, path, val) ==
    IF path = "odEntry[key]" /\ e.cls = "odEntry"
    THEN [e EXCEPT !.out = Raised("TypeError")]
    ELSE SetValue(e, val)

\* the ways to read an entry: its value getter, alone or after odEntry[key]
ReadPaths == {"value", "odEntry[key].value"}

\* odEntry.__getitem__ returns the VAR entry itself for key 0 and raises
\* for a reserved subentry
Read(e, path) ==
    IF path = "odEntry[key].value" /\ e.reserved
    THEN Raised("IndexError")
    ELSE GetValue(e)

----------------------------------------------------------------------------
(* The CAN channel (analib/channel.py) and the end of the server *)

\* a channel after Channel.__init__: _openDevice has opened the connection;
\* handle is the state of the connection inside the vendor library
NewChannel ==
    [deviceOpen |-> TRUE, handle |-> "open", callback |-> TRUE,
     out |-> None, closes |-> 0]

\* the library call behind _deviceConnectState, as an entry of CONNECT_STATES
DeviceConnectState(c) ==
    IF c.handle = "open" THEN "CONNECTED" ELSE "DISCONNECTED"

\* Channel.state
State(c) ==
    IF c.deviceOpen THEN DeviceConnectState(c) ELSE "DISCONNECTED"

\* Channel._closeDevice: CANCloseDevice returns an error for a connection
\* that is closed already, which _error_check raises as DllException before
\* the flag is reset
CloseDevice(c) ==
    IF c.handle = "open"
    THEN [c EXCEPT !.deviceOpen = FALSE, !.handle = "closed",
                   !.callback = FALSE, !.out = None]
    ELSE [c EXCEPT !.out = Raised("DllException")]

\* Variant of close without the except clause
CloseUnguarded(c) == [CloseDevice(c) EXCEPT !.closes = @ + 1]

\* Channel.close: the DllException of _closeDevice is passed over
Close(c) == [CloseDevice(c) EXCEPT !.out = None, !.closes = @ + 1]

\* Channel.openChannel: _openDevice is called if the device is not open;
\* CANOpenDevice connects or fails with a DllException
OpenChannel(c) ==
    IF c.deviceOpen THEN {[c EXCEPT !.out = None]}
    ELSE {[c EXCEPT !.deviceOpen = TRUE, !.handle = "open", !.out = None],
          [c EXCEPT !.out = Raised("DllException")]}

\* Channel.setCallback with a null pointer: CANSetCallback fails on a closed
\* connection
SetCallbackNull(c) ==
    IF c.handle = "open" THEN [c EXCEPT !.callback = FALSE, !.out = None]
    ELSE [c EXCEPT !.out = Raised("DllException")]

\* the server before stop or __exit__ has been called
IdleStop ==
    [calls |-> 0, out |-> None, exits |-> 0, exc |-> "", last |-> "",
     opens |-> 0]

----------------------------------------------------------------------------
(* The simulated controller on its own: one SDO read and its decoding *)

\* sdoAbortCodes.HARDWARE_ERROR
SAC_HARDWARE_ERROR == 101056512

\* "not self.__od[index][2]" in gather_value: the operand is the odSubEntry
\* object, not its value; the class defines neither __bool__ nor __len__, so
\* the object is true and the test is false whatever the status of the chip
NotStatusEntry(status) == FALSE

\* whether gather_value raises ChipNotConnectedError
ChipNotConnected(index, subindex, status) ==
    index \in 8704..8767 /\ subindex # 2 /\ NotStatusEntry(status)

\* ret of process_sdo_read for a read request msg, with the status stored
\* for the chip and the value val that gather_value returns if it returns
ProcessSdoRead(msg, status, val) ==
    LET index == IntFromBytesLittle(<<Byte(msg, 1), Byte(msg, 2)>>)
        idx == ToBytesLittle(index, 2)
        subindex == Byte(msg, 3)
    IN  IF index \in OdIndices /\ index # 8448
           /\ OdContainsSub(index, subindex)
           /\ ChipNotConnected(index, subindex, status)
        THEN SdoAbortMessage(idx, subindex, SAC_HARDWARE_ERROR)
        ELSE SdoReadResponse(msg, val)

\* values of every data size that a subentry written by SDO can hold:
\* process_sdo_write stores the up to four data bytes of the request
StoredValues ==
    {IntResult(v) : v \in {0, 1, 255, 256, 65535, 65536, 16777215, 16777216,
                           2147483647}}
    \cup {WideResult(1, 0), WideResult(1, 2147483647)}

\* the values gather_value can return for the objects read here: the stored
\* value for the bitmaps of index 0x2000, the stored status for subindex 2 of
\* a chip, else as GatherValues
CtlGatherValues(index, subindex, status) ==
    IF index = 8192 THEN StoredValues
    ELSE IF index \in 8704..8767 /\ subindex = 2
    THEN {IntResult(IF status THEN 1 ELSE 0)}
    ELSE GatherValues(ControllerNodeId, index, subindex)

\* the objects read: a bitmap of connected chips, and the monitoring word,
\* the status and a register of the first and of the last chip
CtlObjects ==
    {<<8192, 1>>}
    \cup {<<index, subindex>> : index \in {8704, 8767}, subindex \in {1, 2, 16}}

\* odEntry[subindex] is one of the subentries addSubEntry creates with
\* reserved=True to fill the gap before a subindex that is not continuous:
\* in the record of a chip the subindexes between the status (2) and the
\* first register (0x10) and between the last register (0x1C) and the first
\* ADC channel (0x20)
OdReserved(index, subindex) ==
    index \in 8704..8767 /\ subindex \in (3..15) \cup (29..31)

\* gather_value ends in "return self.__od[index][subindex].value" for every
\* subindex it does not simulate, and odEntry.__getitem__ raises IndexError
\* for a reserved subentry
GatherValueRaises(index, subindex) == OdReserved(index, subindex)

\* the objects the requests of a bus participant address: subentries that
\* exist, reserved ones, and subindexes past the end of the entry
ServedObjects ==
    {<<8192, 1>>, <<8192, 5>>, <<8704, 2>>, <<8704, 3>>, <<8704, 16>>,
     <<8704, 29>>, <<8704, 40>>, <<8767, 15>>, <<8767, 255>>}

\* the controller before its first request
IdleCtl ==
    [status |-> TRUE, msg |-> <<>>, val |-> None, ret |-> <<>>,
     result |-> None, pc |-> "idle", nreads |-> 0]

----------------------------------------------------------------------------
(* Initial state *)

\* the parts the rest of the model leaves alone
InitParts ==
    /\ od = NewOdEntry("RW", IntResult(0), FALSE)
    /\ chan = NewChannel
    /\ stop = IdleStop
    /\ ctl = IdleCtl
    /\ conn = IdleConn
    /\ sync = IdleSync

Init ==
    /\ interface \in {"Kvaser", "AnaGate"}
    /\ canMsgQueue = <<>>
    /\ cnt = [k \in CounterKeys |-> 0]
    /\ call = [t \in Threads |-> IdleCall]
    /\ bus = <<>>
    /\ rx = <<>>
    /\ ncalls = 0
    /\ ninject = 0
    /\ InitParts
    /\ present = {ControllerNodeId}
    /\ nodeIds = <<>>
    /\ scan = IdleScan
    /\ start = IdleStart
    /\ pill2kill = FALSE
    /\ busOn = TRUE
    /\ isinit = FALSE
    /\ mirror = NoOverrides
    /\ published = NoOverrides
    /\ run = IdleRun
    /\ sub = IdleSub

----------------------------------------------------------------------------
(* sdoRead / sdoWrite, step by step *)

\* The poll thread (scanNodes, run) enters sdoRead and builds the request
SdoReadCall ==
    /\ call["poll"].pc \in {"idle", "done"}
    /\ ncalls < MaxCalls
    /\ \E a \in ReadArgs :
          call' = [call EXCEPT !["poll"] =
                      NewCall("read", a[1], a[2], a[3], 0, a[4],
                              ReadRequestMsg(a[2], a[3]))]
    /\ cnt' = Incr(cnt, "SDO read total")
    /\ ncalls' = ncalls + 1
    /\ UNCHANGED <<interface, canMsgQueue, bus, rx, ninject, serverVars>>

\* The subscription handler thread enters sdoWrite and builds the request
SdoWriteCall ==
    /\ call["handler"].pc \in {"idle", "done"}
    /\ ncalls < MaxCalls
    /\ \E a \in WriteArgs :
          call' = [call EXCEPT !["handler"] =
                      NewCall("write", a[1], a[2], a[3], a[4], 3000,
                              WriteRequestMsg(a[2], a[3], a[4]))]
    /\ cnt' = Incr(cnt, "SDO write total")
    /\ ncalls' = ncalls + 1
    /\ UNCHANGED <<interface, canMsgQueue, bus, rx, ninject, serverVars>>

RequestTimeoutKey(op) ==
    IF op = "read" THEN "SDO read request timeout"
    ELSE "SDO write request timeout"

ResponseTimeoutKey(op) ==
    IF op = "read" THEN "SDO read response timeout" ELSE "SDO write timeout"

AbortKey(op) == IF op = "read" THEN "SDO read abort" ELSE "SDO write abort"

Failure(op) == IF op = "read" THEN None ELSE BoolResult(FALSE)

\* exceptions of writeMessage that the caller catches
CaughtBy(op) ==
    IF op = "read" THEN {"CanGeneralError"}
    ELSE {"CanGeneralError", "DllException"}

\* the exception the adapter raises when a frame cannot be sent
SendError == IF interface = "Kvaser" THEN "CanGeneralError" ELSE "DllException"

\* writeMessage sends the request frame
WriteMessageOk(t) ==
    /\ call[t].pc = "request"
    /\ IsByteList(call[t].msg)
    /\ LET f == Frame(SDO_RX + call[t].nodeId, call[t].msg,
                      Len(call[t].msg), 0)
       IN  /\ bus' = Append(bus, f)
           /\ call' = [call EXCEPT ![t].pc = "wait",
                                   ![t].sent = Append(@, f)]
    /\ UNCHANGED <<interface, canMsgQueue, cnt, rx, ncalls, ninject, serverVars>>

\* Frame(cobid, msg) / bytes(data) rejects an item outside range(0, 256)
WriteMessageValueError(t) ==
    /\ call[t].pc = "request"
    /\ ~IsByteList(call[t].msg)
    /\ call' = [call EXCEPT ![t].pc = "done",
                            ![t].result = Raised("ValueError")]
    /\ UNCHANGED <<interface, canMsgQueue, cnt, bus, rx, ncalls, ninject, serverVars>>

\* the adapter reports an error (Kvaser: writeWait, AnaGate: CANWrite)
WriteMessageFail(t) ==
    /\ call[t].pc = "request"
    /\ IsByteList(call[t].msg)
    /\ IF SendError \in CaughtBy(call[t].op)
       THEN /\ cnt' = Incr(cnt, RequestTimeoutKey(call[t].op))
            /\ call' = [call EXCEPT ![t].pc = "done",
                                    ![t].result = Failure(call[t].op)]
       ELSE /\ cnt' = cnt
            /\ call' = [call EXCEPT ![t].pc = "done",
                                    ![t].result = Raised(SendError)]
    /\ UNCHANGED <<interface, canMsgQueue, bus, rx, ncalls, ninject, serverVars>>

\* One iteration of the while loop whose condition holds: the queue is
\* scanned under the lock
Scan(t) ==
    /\ call[t].pc = "wait"
    /\ LoopMayRun(call[t].timeout)
    /\ LET c == call[t]
           i == ScanStop(c, canMsgQueue)
       IN  IF i < 0
           THEN /\ call' = [call EXCEPT ![t].scanned = TRUE]
                /\ UNCHANGED <<canMsgQueue, cnt>>
           ELSE IF MessageValidFor(c, canMsgQueue[i + 1]) = "IndexError"
           THEN /\ call' = [call EXCEPT ![t].scanned = TRUE, ![t].pc = "done",
                                        ![t].result = Raised("IndexError")]
                /\ UNCHANGED <<canMsgQueue, cnt>>
           ELSE LET ret == canMsgQueue[i + 1]
                IN  /\ canMsgQueue' = DelAt(canMsgQueue, DelIndex(i))
                    /\ cnt' = IF IsAbort(ret.data)
                              THEN Incr(cnt, AbortKey(c.op)) ELSE cnt
                    /\ call' = [call EXCEPT
                          ![t].scanned = TRUE, ![t].pc = "done", ![t].ret = ret,
                          ![t].matched = TRUE,
                          ![t].nvalid = Cardinality(ValidAt(c, canMsgQueue)),
                          ![t].result = IF c.op = "read"
                                        THEN ReadResult(ret.data)
                                        ELSE WriteResult(ret.data)]
    /\ UNCHANGED <<interface, bus, rx, ncalls, ninject, serverVars>>

\* The while condition is false: the else branch of the loop
ResponseTimeout(t) ==
    /\ call[t].pc = "wait"
    /\ cnt' = Incr(cnt, ResponseTimeoutKey(call[t].op))
    /\ call' = [call EXCEPT ![t].pc = "done",
                            ![t].result = Failure(call[t].op)]
    /\ UNCHANGED <<interface, canMsgQueue, bus, rx, ncalls, ninject, serverVars>>

----------------------------------------------------------------------------
(* The bus, the controller and the receive path *)

\* evaluate_message of a controller for the oldest request on the bus: an
\* SDO read or write request for the node id of a connected controller is
\* answered by it, a frame with any other COB-ID is ignored
ControllerStep ==
    /\ bus # <<>>
    /\ Len(rx) < MaxRx
    /\ LET f == Head(bus)
           n == f.cobid - SDO_RX
           index == IntFromBytesLittle(<<Byte(f.data, 1), Byte(f.data, 2)>>)
       IN  IF n \notin present
           THEN rx' = rx
           ELSE IF ShiftRight(Byte(f.data, 0), 5) = 2
           THEN \E val \in GatherValues(n, index, Byte(f.data, 3)) :
                   LET r == Frame(SDO_TX + n,
                                  SdoReadResponse(f.data, val), 8, 0)
                   IN  rx' = Append(rx, r)
           ELSE IF ShiftRight(Byte(f.data, 0), 5) = 1
           THEN LET r == Frame(SDO_TX + n, SdoWriteResponse(f.data), 8, 0)
                IN  rx' = Append(rx, r)
           ELSE LET r == Frame(SDO_TX,
                               SdoAbortMessage(<<Byte(f.data, 2),
                                                 Byte(f.data, 1)>>,
                                               Byte(f.data, 3), SAC_COMMAND),
                               8, 0)
                IN  rx' = Append(rx, r)
    /\ bus' = Tail(bus)
    /\ UNCHANGED <<interface, canMsgQueue, cnt, call, ncalls, ninject, serverVars>>

\* Another participant of the bus (a node, a disturbance) produces a frame
Inject ==
    /\ ninject < MaxInject
    /\ Len(rx) < MaxRx
    /\ \E f \in EnvFrames : rx' = Append(rx, f)
    /\ ninject' = ninject + 1
    /\ UNCHANGED <<interface, canMsgQueue, cnt, call, bus, ncalls, serverVars>>

\* Periodic frames of the controller: the TPDO1 frames of process_sync, whose
\* bytes 1..4 are random; byte 1 is drawn so that it tells the frames of a
\* behaviour apart by their order of arrival
TrafficFrames ==
    { Frame(384 + ControllerNodeId, <<128, ninject, b, 3, 4, 0>>, 6, 0) :
         b \in {1, 2} }

Traffic ==
    /\ ninject < MaxTraffic
    /\ Len(rx) < MaxRx
    /\ \E f \in TrafficFrames : rx' = Append(rx, f)
    /\ ninject' = ninject + 1
    /\ UNCHANGED <<interface, canMsgQueue, cnt, call, bus, ncalls, serverVars>>

\* Variant whose loop is "while True": the iteration is made whether or not
\* pill2kill is set
ReadCanMessagesForever ==
    /\ interface = "Kvaser"
    /\ rx # <<>>
    /\ LET f == Head(rx)
       IN  canMsgQueue' = IF f.cobid = 0 /\ f.dlc = 0
                          THEN canMsgQueue
                          ELSE AppendLeft(canMsgQueue, f)
    /\ rx' = Tail(rx)
    /\ UNCHANGED <<interface, cnt, call, bus, ncalls, ninject, serverVars>>

\* One iteration of readCanMessages (Kvaser) while pill2kill is not set: a frame with cobid 0 and
\* dlc 0 counts as "no message", every other frame is appended on the left
ReadCanMessages ==
    /\ interface = "Kvaser"
    /\ ~pill2kill
    /\ rx # <<>>
    /\ LET f == Head(rx)
       IN  canMsgQueue' = IF f.cobid = 0 /\ f.dlc = 0
                          THEN canMsgQueue
                          ELSE AppendLeft(canMsgQueue, f)
    /\ rx' = Tail(rx)
    /\ UNCHANGED <<interface, cnt, call, bus, ncalls, ninject, serverVars>>

\* The AnaGate callback cbFunc: every frame is appended on the left
CbFunc ==
    /\ interface = "AnaGate"
    /\ rx # <<>>
    /\ canMsgQueue' = AppendLeft(canMsgQueue, Head(rx))
    /\ rx' = Tail(rx)
    /\ UNCHANGED <<interface, cnt, call, bus, ncalls, ninject, serverVars>>

----------------------------------------------------------------------------
(* scanNodes *)

\* scanNodes is called: the list is reset to all node ids and the first node
\* is read
ScanNodes ==
    /\ scan.pc \in {"idle", "done"}
    /\ call["poll"].pc \in {"idle", "done"}
    /\ scan.runs < MaxScans
    /\ nodeIds' = AllNodeIds
    /\ scan' = [scan EXCEPT !.pc = "wait", !.nodeId = 1, !.got = {},
                            !.asked = <<1>>,
                            !.prev = IF scan.pc = "done" THEN nodeIds ELSE @,
                            !.prevGot = IF scan.pc = "done" THEN scan.got ELSE @]
    /\ call' = [call EXCEPT !["poll"] = ScanRead(1)]
    /\ cnt' = Incr(cnt, "SDO read total")
    /\ UNCHANGED <<interface, canMsgQueue, bus, rx, ncalls, ninject, present,
                   partVars,
                   startVars, mirrorVars>>

\* sdoRead has returned to scanNodes: the node is removed if dev_t is None,
\* then the next node is read or the loop ends; an exception of sdoRead ends
\* scanNodes
ScanNodesNext ==
    /\ scan.pc = "wait"
    /\ call["poll"].pc = "done"
    /\ LET dev_t == call["poll"].result
           n == scan.nodeId
           got == IF dev_t.kind = "int" THEN scan.got \cup {n} ELSE scan.got
       IN  IF dev_t.kind = "raise"
           THEN /\ scan' = [scan EXCEPT !.pc = "raised"]
                /\ UNCHANGED <<nodeIds, call, cnt>>
           ELSE /\ nodeIds' = IF ScanKeep(dev_t) THEN nodeIds
                               ELSE Remove(nodeIds, n)
                /\ IF n < MaxNodeId
                   THEN /\ scan' = [scan EXCEPT !.nodeId = n + 1, !.got = got,
                                                !.asked = Append(@, n + 1)]
                        /\ call' = [call EXCEPT !["poll"] = ScanRead(n + 1)]
                        /\ cnt' = Incr(cnt, "SDO read total")
                   ELSE /\ scan' = [scan EXCEPT !.pc = "done", !.got = got,
                                                !.runs = @ + 1]
                        /\ UNCHANGED <<call, cnt>>
    /\ UNCHANGED <<interface, canMsgQueue, bus, rx, ncalls, ninject, present,
                   partVars,
                   startVars, mirrorVars>>

----------------------------------------------------------------------------
(* start and stop *)

\* start is called: count = 0
Start ==
    /\ start.pc = "idle"
    /\ start' = [start EXCEPT !.pc = "loop", !.count = 0]
    /\ UNCHANGED <<interface, canMsgQueue, cnt, call, bus, rx, ncalls, ninject,
                   present, partVars, nodeIds, scan, pill2kill, busOn, isinit,
                   mirrorVars>>

\* One test of "while count < 3". True: the channel is opened (Kvaser: bus
\* on, a new receive thread) and scanNodes is entered, which resets the list
\* and reads the first node. False: the else branch logs 'The third try
\* failed. Exiting.' and start returns
StartTry ==
    /\ start.pc = "loop"
    /\ IF start.count < 3
       THEN /\ start.attempts < MaxAttempts
            /\ start' = [start EXCEPT !.pc = "scan", !.attempts = @ + 1]
            /\ busOn' = IF interface = "Kvaser" THEN TRUE ELSE busOn
            /\ nodeIds' = AllNodeIds
            /\ scan' = [scan EXCEPT !.pc = "wait", !.nodeId = 1, !.got = {},
                                    !.asked = <<1>>,
                                    !.prev = IF scan.pc = "done" THEN nodeIds
                                             ELSE @,
                                    !.prevGot = IF scan.pc = "done"
                                                THEN scan.got ELSE @]
            /\ call' = [call EXCEPT !["poll"] = ScanRead(1)]
            /\ cnt' = Incr(cnt, "SDO read total")
       ELSE /\ start' = [start EXCEPT !.pc = "exited"]
            /\ UNCHANGED <<busOn, nodeIds, scan, call, cnt>>
    /\ UNCHANGED <<interface, canMsgQueue, bus, rx, ncalls, ninject, present,
                   partVars,
                   pill2kill, isinit, mirrorVars>>

\* scanNodes has returned to start. No node: BusEmptyError is raised and
\* caught, stop() counts the residual messages, sets pill2kill and closes
\* the channel, and after the sleep the loop condition is tested again. Some
\* node: the server is started and the mirror objects are created. An
\* exception of scanNodes other than BusEmptyError leaves start
StartAfterScan ==
    /\ start.pc = "scan"
    /\ scan.pc \in {"done", "raised"}
    /\ IF scan.pc = "raised"
       THEN /\ start' = [start EXCEPT !.pc = "raised"]
            /\ UNCHANGED <<cnt, pill2kill, busOn, isinit>>
       ELSE IF Len(nodeIds) = 0
       THEN /\ cnt' = [cnt EXCEPT !["Residual CAN messages"] = Len(canMsgQueue)]
            /\ pill2kill' = TRUE
            /\ busOn' = FALSE
            /\ isinit' = FALSE
            /\ start' = [start EXCEPT !.pc = "loop"]
       ELSE /\ start' = [start EXCEPT !.pc = "init"]
            /\ isinit' = TRUE
            /\ UNCHANGED <<cnt, pill2kill, busOn>>
    /\ UNCHANGED <<interface, canMsgQueue, call, bus, rx, ncalls, ninject,
                   present, partVars, nodeIds, scan, mirrorVars>>

----------------------------------------------------------------------------
(* run: the poll loop *)

\* run is called: the first pass of "while True", the first node of
\* self.__nodeIds and the first SCB master
Run ==
    /\ run.pc = "idle"
    /\ conn.pc # "read"
    /\ call["poll"].pc \in {"idle", "done"}
    /\ run' = [run EXCEPT !.pc = "scb", !.node = 1, !.scb = 0]
    /\ UNCHANGED <<interface, canMsgQueue, cnt, call, bus, rx, ncalls, ninject,
                   present, partVars, nodeIds, scan, startVars, mirror, published, sub>>

\* The head of "for scb in range(4)": the bitmap of the SCB master is read
\* again from the mirror object and decoded. With a chip in the list, the
\* loop over the chips is entered and the monitoring word of the first chip
\* is read. With no chip, the loops go on: the next SCB master, after the
\* last one the next node, after the last node the next pass
RunScb ==
    /\ run.pc = "scb"
    /\ IF run.node > Len(nodeIds)
       THEN /\ nodeIds # <<>>
            /\ run.sweeps < MaxSweeps
            /\ run' = [run EXCEPT !.node = 1, !.scb = 0, !.visited = <<>>,
                                  !.sweeps = @ + 1]
            /\ UNCHANGED <<call, cnt>>
       ELSE LET nodeId == nodeIds[run.node]
                val == Get(mirror, Path("ConnectedPSPPs", nodeId, run.scb, 0, 0))
                chips == ConnectedPSPPsOf(val.val)
            IN  IF chips = <<>>
                THEN /\ run' = IF run.scb + 1 < NumSCB
                               THEN [run EXCEPT !.scb = @ + 1, !.chips = chips]
                               ELSE [run EXCEPT !.node = @ + 1, !.scb = 0,
                                                !.chips = chips]
                     /\ UNCHANGED <<call, cnt>>
                ELSE /\ run' = [run EXCEPT !.pc = "leaf", !.chips = chips,
                                           !.pos = 1, !.leaf = 1,
                                           !.visited =
                                              Append(@, <<run.scb, chips[1]>>)]
                     /\ call' = [call EXCEPT !["poll"] =
                                   RunRead(nodeId, PSPPIndex(run.scb, chips[1]),
                                           1, 3000)]
                     /\ cnt' = Incr(cnt, "SDO read total")
    /\ UNCHANGED <<interface, canMsgQueue, bus, rx, ncalls, ninject, present,
                   partVars,
                   nodeIds, scan, startVars, mirror, published, sub>>

\* sdoRead has returned the monitoring word to run. A value: it is unpacked,
\* the first value is assigned to the attribute of the first name of
\* coc.PSPPMONVALS, and the next statement, which subscripts the attribute
\* serverWriting that no mirror class defines, raises AttributeError and
\* ends run. None: the status of the chip is read next. An exception of
\* sdoRead ends run
RunMonitoring ==
    /\ run.pc = "leaf"
    /\ run.leaf = 1
    /\ call["poll"].pc = "done"
    /\ LET monVals == call["poll"].result
           nodeId == nodeIds[run.node]
           pspp == run.chips[run.pos]
       IN  IF monVals.kind = "raise"
           THEN /\ run' = [run EXCEPT !.pc = "raised", !.exc = monVals.exc]
                /\ UNCHANGED <<mirror, call, cnt>>
           ELSE IF monVals # None
           THEN /\ mirror' = Set(mirror,
                                 Path("MonitoringData", nodeId, run.scb, pspp, 0),
                                 IntResult(MonVals(monVals)[1]))
                /\ run' = [run EXCEPT !.pc = "raised", !.exc = "AttributeError"]
                /\ UNCHANGED <<call, cnt>>
           ELSE /\ run' = [run EXCEPT !.leaf = 2]
                /\ call' = [call EXCEPT !["poll"] =
                              RunRead(nodeId, PSPPIndex(run.scb, pspp), 2, 1000)]
                /\ cnt' = Incr(cnt, "SDO read total")
                /\ UNCHANGED mirror
    /\ UNCHANGED <<interface, canMsgQueue, bus, rx, ncalls, ninject, present,
                   partVars,
                   nodeIds, scan, startVars, published, sub>>

\* sdoRead has returned the status to run: bool() of what it returned, None
\* included, is assigned to PSPP.Status, and the next statement, which
\* subscripts the attribute serverWriting that MyPSPP does not define, raises
\* AttributeError and ends run; the statements after it (the write of the
\* node, the ADC channels, the registers, the next chip) are not reached
RunStatus ==
    /\ run.pc = "leaf"
    /\ run.leaf = 2
    /\ call["poll"].pc = "done"
    /\ LET r == call["poll"].result
           nodeId == nodeIds[run.node]
           pspp == run.chips[run.pos]
       IN  IF r.kind = "raise"
           THEN /\ run' = [run EXCEPT !.pc = "raised", !.exc = r.exc]
                /\ UNCHANGED mirror
           ELSE /\ mirror' = Set(mirror,
                                 Path("Status", nodeId, run.scb, pspp, 0),
                                 BoolResult(Bool(r)))
                /\ run' = [run EXCEPT !.pc = "raised", !.exc = "AttributeError"]
    /\ UNCHANGED <<interface, canMsgQueue, cnt, call, bus, rx, ncalls, ninject,
                   present, partVars, nodeIds, scan, startVars, published, sub>>

----------------------------------------------------------------------------
(* The OPC UA nodes and the subscription handler *)

\* A client writes a value to the node of an attribute; the subscription
\* of the mirror object queues a data change notification
ExternalWrite ==
    /\ sub.nwrites < MaxWrites
    /\ \E path \in ExternalPaths :
          \E val \in ExternalValues(path) :
             /\ published' = Set(published, path, val)
             /\ sub' = [sub EXCEPT !.queue = Append(@, Notification(path, val)),
                                   !.nwrites = @ + 1]
    /\ UNCHANGED <<interface, canMsgQueue, cnt, call, bus, rx, ncalls, ninject,
                   present, partVars, nodeIds, scan, startVars, mirror, run>>

\* datachange_notification is called with the oldest notification and runs
\* up to its return or up to its call of sdoWrite
Notify ==
    /\ sub.pc = "idle"
    /\ sub.queue # <<>>
    /\ call["handler"].pc \in {"idle", "done"}
    /\ LET path == Head(sub.queue).path
           val == Head(sub.queue).val
           mirrorval == Get(mirror, path)
           nodeval == Get(published, path)
           taken == [sub EXCEPT !.queue = Tail(@), !.path = path, !.val = val,
                                !.mirrorval = mirrorval]
       IN  IF val = None \/ ~isinit
           THEN /\ sub' = [taken EXCEPT !.outcome = "invalid"]
                /\ UNCHANGED <<published, call, cnt>>
           ELSE IF OriginIsServer(val, mirrorval)
           THEN /\ sub' = [taken EXCEPT !.outcome = "same"]
                /\ UNCHANGED <<published, call, cnt>>
           ELSE IF ~PyEq(val, nodeval)
           THEN IF PyEq(nodeval, mirrorval)
                THEN /\ published' = Set(published, path, val)
                     /\ sub' = [taken EXCEPT
                                  !.outcome = "renewed",
                                  !.queue = Append(@, Notification(path, val))]
                     /\ UNCHANGED <<call, cnt>>
                ELSE /\ sub' = [taken EXCEPT !.outcome = "stale"]
                     /\ UNCHANGED <<published, call, cnt>>
           ELSE IF ~Forwarded(path)
           THEN /\ cnt' = Incr(cnt, "Datachange events")
                /\ sub' = [taken EXCEPT !.outcome = "refused"]
                /\ UNCHANGED <<published, call>>
           ELSE /\ cnt' = Incr(Incr(cnt, "Datachange events"),
                               "SDO write total")
                /\ call' = [call EXCEPT !["handler"] = HandlerWrite(path, val)]
                /\ sub' = [taken EXCEPT !.pc = "write", !.outcome = "writing"]
                /\ UNCHANGED published
    /\ UNCHANGED <<interface, canMsgQueue, bus, rx, ncalls, ninject, present,
                   partVars,
                   nodeIds, scan, startVars, mirror, run>>

\* sdoWrite has returned to datachange_notification. A true value: the
\* attribute of the mirror object and the node are set to val. A false
\* value: the node is set to mirrorval. Setting the node queues a
\* notification. An exception of sdoWrite leaves the handler
NotifyDone ==
    /\ sub.pc = "write"
    /\ call["handler"].pc = "done"
    /\ LET r == call["handler"].result
       IN  IF r.kind = "raise"
           THEN /\ sub' = [sub EXCEPT !.pc = "idle", !.outcome = "raised"]
                /\ UNCHANGED <<mirror, published>>
           ELSE IF Truthy(r)
           THEN /\ mirror' = Set(mirror, sub.path, sub.val)
                /\ published' = Set(published, sub.path, sub.val)
                /\ sub' = [sub EXCEPT
                             !.pc = "idle", !.outcome = "applied",
                             !.queue = Append(@, Notification(sub.path, sub.val))]
           ELSE /\ published' = Set(published, sub.path, sub.mirrorval)
                /\ sub' = [sub EXCEPT
                             !.pc = "idle", !.outcome = "restored",
                             !.queue = Append(@, Notification(sub.path,
                                                              sub.mirrorval))]
                /\ UNCHANGED mirror
    /\ UNCHANGED <<interface, canMsgQueue, cnt, call, bus, rx, ncalls, ninject,
                   present, partVars, nodeIds, scan, startVars, run>>

----------------------------------------------------------------------------
(* Specification *)

Next ==
    \/ SdoReadCall
    \/ SdoWriteCall
    \/ \E t \in Threads : WriteMessageOk(t)
    \/ \E t \in Threads : WriteMessageValueError(t)
    \/ \E t \in Threads : WriteMessageFail(t)
    \/ \E t \in Threads : Scan(t)
    \/ \E t \in Threads : ResponseTimeout(t)
    \/ ControllerStep
    \/ Inject
    \/ ReadCanMessages
    \/ CbFunc

Spec == Init /\ [][Next]_vars

\* Only one of the two threads issues SDO calls in a behaviour: the calls on
\* the bus are strictly sequential, as during scanNodes and
\* getConnectedPSPPs
NextSingle ==
    \/ (call["handler"].pc = "idle" /\ SdoReadCall)
    \/ (call["poll"].pc = "idle" /\ SdoWriteCall)
    \/ \E t \in Threads : WriteMessageOk(t)
    \/ \E t \in Threads : WriteMessageValueError(t)
    \/ \E t \in Threads : WriteMessageFail(t)
    \/ \E t \in Threads : Scan(t)
    \/ \E t \in Threads : ResponseTimeout(t)
    \/ ControllerStep
    \/ Inject
    \/ ReadCanMessages
    \/ CbFunc

SpecSingle == Init /\ [][NextSingle]_vars

\* The receive path alone: periodic traffic fills the queue and no SDO call
\* consumes from it
NextQueue ==
    \/ Traffic
    \/ ReadCanMessages
    \/ CbFunc

SpecQueue == Init /\ [][NextQueue]_vars

\* The scan of a bus with any set of controllers with node ids 1..MaxNodeId
InitScan ==
    /\ interface \in {"Kvaser", "AnaGate"}
    /\ canMsgQueue = <<>>
    /\ cnt = [k \in CounterKeys |-> 0]
    /\ call = [t \in Threads |-> IdleCall]
    /\ bus = <<>>
    /\ rx = <<>>
    /\ ncalls = 0
    /\ ninject = 0
    /\ InitParts
    /\ present \in SUBSET (1..MaxNodeId)
    /\ nodeIds = <<>>
    /\ scan = IdleScan
    /\ start = IdleStart
    /\ pill2kill = FALSE
    /\ busOn = TRUE
    /\ isinit = FALSE
    /\ mirror = NoOverrides
    /\ published = NoOverrides
    /\ run = IdleRun
    /\ sub = IdleSub

NextScan ==
    \/ ScanNodes
    \/ ScanNodesNext
    \/ WriteMessageOk("poll")
    \/ WriteMessageFail("poll")
    \/ Scan("poll")
    \/ ResponseTimeout("poll")
    \/ ControllerStep
    \/ ReadCanMessages
    \/ CbFunc

SpecScan == InitScan /\ [][NextScan]_vars

\* start on a bus with any set of controllers
NextStart ==
    \/ Start
    \/ StartTry
    \/ StartAfterScan
    \/ ScanNodesNext
    \/ WriteMessageOk("poll")
    \/ WriteMessageFail("poll")
    \/ Scan("poll")
    \/ ResponseTimeout("poll")
    \/ ControllerStep
    \/ ReadCanMessages
    \/ CbFunc

SpecStart == InitScan /\ [][NextStart]_vars

\* values of the attribute ConnectedPSPPs of an SCB master at the time run
\* is called: no chip, chips 0 and 2, chip 15
Bitmaps == {0, 5, 32768}

\* The poll loop with the controller on the bus and in the list of nodes,
\* and any of the bitmaps on each SCB master
InitSweep ==
    /\ interface \in {"Kvaser", "AnaGate"}
    /\ canMsgQueue = <<>>
    /\ cnt = [k \in CounterKeys |-> 0]
    /\ call = [t \in Threads |-> IdleCall]
    /\ bus = <<>>
    /\ rx = <<>>
    /\ ncalls = 0
    /\ ninject = 0
    /\ InitParts
    /\ present \in {{}, {ControllerNodeId}}
    /\ nodeIds = <<ControllerNodeId>>
    /\ scan = IdleScan
    /\ start = IdleStart
    /\ pill2kill = FALSE
    /\ busOn = TRUE
    /\ isinit = TRUE
    /\ \E b \in [0..(NumSCB - 1) -> Bitmaps] :
          mirror = [path \in { Path("ConnectedPSPPs", ControllerNodeId, s, 0, 0) :
                                 s \in {s \in 0..(NumSCB - 1) : b[s] # 0} }
                      |-> IntResult(b[path.scb])]
    /\ published = NoOverrides
    /\ run = IdleRun
    /\ sub = IdleSub

NextSweep ==
    \/ Run
    \/ RunScb
    \/ RunMonitoring
    \/ RunStatus
    \/ WriteMessageOk("poll")
    \/ WriteMessageFail("poll")
    \/ Scan("poll")
    \/ ResponseTimeout("poll")
    \/ ControllerStep
    \/ ReadCanMessages
    \/ CbFunc

SpecSweep == InitSweep /\ [][NextSweep]_vars

\* The subscription handler with the mirror objects as their constructors
\* left them, before and after the end of the initialization, with and
\* without the controller on the bus
InitMirror ==
    /\ interface \in {"Kvaser", "AnaGate"}
    /\ canMsgQueue = <<>>
    /\ cnt = [k \in CounterKeys |-> 0]
    /\ call = [t \in Threads |-> IdleCall]
    /\ bus = <<>>
    /\ rx = <<>>
    /\ ncalls = 0
    /\ ninject = 0
    /\ InitParts
    /\ present \in {{}, {ControllerNodeId}}
    /\ nodeIds = <<ControllerNodeId>>
    /\ scan = IdleScan
    /\ start = IdleStart
    /\ pill2kill = FALSE
    /\ busOn = TRUE
    /\ isinit \in BOOLEAN
    /\ mirror = NoOverrides
    /\ published = NoOverrides
    /\ run = IdleRun
    /\ sub = IdleSub

NextMirror ==
    \/ ExternalWrite
    \/ Notify
    \/ NotifyDone
    \/ WriteMessageOk("handler")
    \/ WriteMessageValueError("handler")
    \/ WriteMessageFail("handler")
    \/ Scan("handler")
    \/ ResponseTimeout("handler")
    \/ ControllerStep
    \/ ReadCanMessages
    \/ CbFunc

SpecMirror == InitMirror /\ [][NextMirror]_vars

\* The poll loop and the subscription handler side by side: the controller
\* is on the bus, SCB master 0 has the chips 0 and 2, and at most one
\* client write happens in a behaviour
InitBridge ==
    /\ interface \in {"Kvaser", "AnaGate"}
    /\ canMsgQueue = <<>>
    /\ cnt = [k \in CounterKeys |-> 0]
    /\ call = [t \in Threads |-> IdleCall]
    /\ bus = <<>>
    /\ rx = <<>>
    /\ ncalls = 0
    /\ ninject = 0
    /\ InitParts
    /\ present = {ControllerNodeId}
    /\ nodeIds = <<ControllerNodeId>>
    /\ scan = IdleScan
    /\ start = IdleStart
    /\ pill2kill = FALSE
    /\ busOn = TRUE
    /\ isinit = TRUE
    /\ mirror = [path \in {Path("ConnectedPSPPs", ControllerNodeId, 0, 0, 0)}
                    |-> IntResult(5)]
    /\ published = mirror
    /\ run = IdleRun
    /\ sub = IdleSub

NextBridge ==
    \/ Run
    \/ RunScb
    \/ RunMonitoring
    \/ RunStatus
    \/ (sub.nwrites = 0 /\ ExternalWrite)
    \/ Notify
    \/ NotifyDone
    \/ \E t \in Threads : WriteMessageOk(t)
    \/ WriteMessageValueError("handler")
    \/ \E t \in Threads : WriteMessageFail(t)
    \/ \E t \in Threads : Scan(t)
    \/ \E t \in Threads : ResponseTimeout(t)
    \/ ControllerStep
    \/ ReadCanMessages
    \/ CbFunc

SpecBridge == InitBridge /\ [][NextBridge]_vars

----------------------------------------------------------------------------
(* The object dictionary on its own: an entry is created, then written and *)
(* read                                                                     *)

\* a write of the entry through one of the write paths
OdWrite ==
    /\ od.nops < MaxOdOps
    /\ \E path \in WritePaths(od), val \in OdValues :
          od' = [Write(od, path, val) EXCEPT !.op = "set", !.path = path,
                                             !.arg = val, !.nops = @ + 1]
    /\ UNCHANGED <<interface, canMsgQueue, cnt, call, bus, rx, ncalls, ninject,
                   present, nodeIds, scan, startVars, mirrorVars, chan, stop, ctl,
                   conn, sync>>

\* a read of the entry through one of the read paths
OdRead ==
    /\ od.nops < MaxOdOps
    /\ \E path \in ReadPaths :
          od' = [od EXCEPT !.op = "get", !.path = path, !.arg = None,
                           !.out = Read(od, path), !.nops = @ + 1]
    /\ UNCHANGED <<interface, canMsgQueue, cnt, call, bus, rx, ncalls, ninject,
                   present, nodeIds, scan, startVars, mirrorVars, chan, stop, ctl,
                   conn, sync>>

InitOd ==
    /\ interface = "Kvaser"
    /\ canMsgQueue = <<>>
    /\ cnt = [k \in CounterKeys |-> 0]
    /\ call = [t \in Threads |-> IdleCall]
    /\ bus = <<>>
    /\ rx = <<>>
    /\ ncalls = 0
    /\ ninject = 0
    /\ present = {ControllerNodeId}
    /\ nodeIds = <<>>
    /\ scan = IdleScan
    /\ start = IdleStart
    /\ pill2kill = FALSE
    /\ busOn = TRUE
    /\ isinit = FALSE
    /\ mirror = NoOverrides
    /\ published = NoOverrides
    /\ run = IdleRun
    /\ sub = IdleSub
    /\ od \in OdObjects
    /\ chan = NewChannel
    /\ stop = IdleStop
    /\ ctl = IdleCtl
    /\ conn = IdleConn
    /\ sync = IdleSync

NextOd == OdWrite \/ OdRead

SpecOd == InitOd /\ [][NextOd]_vars

----------------------------------------------------------------------------
(* stop, __exit__ and the calls of the channel *)

\* close of the Kvaser channel (after busOff): an error on a closed handle
KvaserClose(c) ==
    IF c.handle = "open"
    THEN [c EXCEPT !.deviceOpen = FALSE, !.handle = "closed", !.out = None,
                   !.closes = @ + 1]
    ELSE [c EXCEPT !.out = Raised("canError"), !.closes = @ + 1]

\* what stop does to the channel c: "if self.__busOn:" the receive thread is
\* joined and the bus is left (Kvaser), then the channel is closed
StopChannel(c) ==
    IF busOn
    THEN IF interface = "Kvaser" THEN KvaserClose(c) ELSE Close(c)
    ELSE [c EXCEPT !.out = None]

\* the body of stop, on the channel c and with the record of the call: the
\* residual messages are counted, pill2kill is set, the channel is closed;
\* an exception of the channel leaves stop before the flag is reset
StopBody(c, rec) ==
    /\ cnt' = [cnt EXCEPT !["Residual CAN messages"] = Len(canMsgQueue)]
    /\ pill2kill' = TRUE
    /\ chan' = StopChannel(c)
    /\ busOn' = IF StopChannel(c).out = None THEN FALSE ELSE busOn
    /\ stop' = [rec EXCEPT !.out = StopChannel(c).out]

\* stop is called
Stop ==
    /\ stop.calls < MaxStops
    /\ StopBody(chan, [stop EXCEPT !.calls = @ + 1, !.last = "stop"])
    /\ UNCHANGED <<interface, canMsgQueue, call, bus, rx, ncalls, ninject,
                   present, nodeIds, scan, start, isinit, mirrorVars, od, ctl,
                   conn, sync>>

\* the outcomes of self.__ch.setCallback(null) in __exit__: the method of
\* the AnaGate channel, and for Kvaser an attribute the channel of canlib
\* may not have
ExitSetCallback(c) ==
    IF interface = "AnaGate" THEN {SetCallbackNull(c)}
    ELSE {[c EXCEPT !.out = None], [c EXCEPT !.out = Raised("AttributeError")]}

\* the with statement is left with the exception exc: __exit__ logs it,
\* removes the callback and calls stop; an exception of setCallback leaves
\* __exit__ before stop is called
Exit ==
    /\ stop.exits = 0
    /\ \E exc \in {"KeyboardInterrupt", "Exception"} :
       \E c \in ExitSetCallback(chan) :
          LET rec == [stop EXCEPT !.exits = @ + 1, !.exc = exc,
                                  !.last = "exit"]
          IN  IF c.out = None
              THEN StopBody(c, rec)
              ELSE /\ stop' = [rec EXCEPT !.out = c.out]
                   /\ chan' = c
                   /\ UNCHANGED <<cnt, pill2kill, busOn>>
    /\ UNCHANGED <<interface, canMsgQueue, call, bus, rx, ncalls, ninject,
                   present, nodeIds, scan, start, isinit, mirrorVars, od, ctl,
                   conn, sync>>

\* close is called on the AnaGate channel
ChannelClose ==
    /\ interface = "AnaGate"
    /\ chan.closes < MaxCloses
    /\ chan' = Close(chan)
    /\ stop' = [stop EXCEPT !.last = "close"]
    /\ UNCHANGED <<interface, canMsgQueue, cnt, call, bus, rx, ncalls, ninject,
                   present, nodeIds, scan, startVars, mirrorVars, od, ctl,
                   conn, sync>>

\* openChannel is called on the AnaGate channel (as start does)
ChannelOpen ==
    /\ interface = "AnaGate"
    /\ stop.opens < MaxOpens
    /\ chan' \in OpenChannel(chan)
    /\ stop' = [stop EXCEPT !.last = "open", !.opens = @ + 1]
    /\ UNCHANGED <<interface, canMsgQueue, cnt, call, bus, rx, ncalls, ninject,
                   present, nodeIds, scan, startVars, mirrorVars, od, ctl,
                   conn, sync>>

InitClose ==
    /\ interface \in {"Kvaser", "AnaGate"}
    /\ canMsgQueue = <<>>
    /\ cnt = [k \in CounterKeys |-> 0]
    /\ call = [t \in Threads |-> IdleCall]
    /\ bus = <<>>
    /\ rx = <<>>
    /\ ncalls = 0
    /\ ninject = 0
    /\ present = {ControllerNodeId}
    /\ nodeIds = <<>>
    /\ scan = IdleScan
    /\ start = IdleStart
    /\ pill2kill = FALSE
    /\ busOn = TRUE
    /\ isinit = FALSE
    /\ mirror = NoOverrides
    /\ published = NoOverrides
    /\ run = IdleRun
    /\ sub = IdleSub
    /\ od = NewOdEntry("RW", IntResult(0), FALSE)
    /\ chan = NewChannel
    /\ stop = IdleStop
    /\ ctl = IdleCtl
    /\ conn = IdleConn
    /\ sync = IdleSync

NextClose ==
    \/ Stop
    \/ Exit
    \/ ChannelClose
    \/ ChannelOpen
    \/ Inject
    \/ ReadCanMessages
    \/ CbFunc

SpecClose == InitClose /\ [][NextClose]_vars

----------------------------------------------------------------------------
(* The simulated controller on its own *)

\* process_sdo_read answers a read request for one of the objects
CtlProcessSdoRead ==
    /\ ctl.pc \in {"idle", "decoded"}
    /\ ctl.nreads < MaxCtlReads
    /\ \E o \in CtlObjects :
       \E val \in CtlGatherValues(o[1], o[2], ctl.status) :
          LET msg == ReadRequestMsg(o[1], o[2])
          IN  ctl' = [ctl EXCEPT !.msg = msg, !.val = val,
                                 !.ret = ProcessSdoRead(msg, ctl.status, val),
                                 !.result = None, !.pc = "answered",
                                 !.nreads = @ + 1]
    /\ UNCHANGED <<interface, canMsgQueue, cnt, call, bus, rx, ncalls, ninject,
                   present, nodeIds, scan, startVars, mirrorVars, od, chan,
                   stop, conn, sync>>

\* sdoRead decodes the response
CtlSdoReadDecode ==
    /\ ctl.pc = "answered"
    /\ ctl' = [ctl EXCEPT !.result = ReadResult(ctl.ret), !.pc = "decoded"]
    /\ UNCHANGED <<interface, canMsgQueue, cnt, call, bus, rx, ncalls, ninject,
                   present, nodeIds, scan, startVars, mirrorVars, od, chan,
                   stop, conn, sync>>

\* mainloop has read an SDO read request and evaluate_message passes it to
\* process_sdo_read: the answer is written to the bus, and an exception
\* other than ChipNotConnectedError leaves process_sdo_read,
\* evaluate_message and mainloop, which catches canNoMsg and canError only
MainloopRead ==
    /\ ctl.pc \in {"idle", "served"}
    /\ ctl.nreads < MaxCtlReads
    /\ \E o \in ServedObjects :
          LET msg == ReadRequestMsg(o[1], o[2])
          IN  IF OdContainsSub(o[1], o[2]) /\ GatherValueRaises(o[1], o[2])
              THEN ctl' = [ctl EXCEPT !.msg = msg, !.val = None, !.ret = <<>>,
                                      !.result = Raised("IndexError"),
                                      !.pc = "raised", !.nreads = @ + 1]
              ELSE \E val \in CtlGatherValues(o[1], o[2], ctl.status) :
                      ctl' = [ctl EXCEPT !.msg = msg, !.val = val,
                                         !.ret = ProcessSdoRead(msg, ctl.status,
                                                                val),
                                         !.result = None, !.pc = "served",
                                         !.nreads = @ + 1]
    /\ UNCHANGED <<interface, canMsgQueue, cnt, call, bus, rx, ncalls, ninject,
                   present, nodeIds, scan, startVars, mirrorVars, od, chan,
                   stop, conn, sync>>

InitCtl ==
    /\ interface = "Kvaser"
    /\ canMsgQueue = <<>>
    /\ cnt = [k \in CounterKeys |-> 0]
    /\ call = [t \in Threads |-> IdleCall]
    /\ bus = <<>>
    /\ rx = <<>>
    /\ ncalls = 0
    /\ ninject = 0
    /\ present = {ControllerNodeId}
    /\ nodeIds = <<>>
    /\ scan = IdleScan
    /\ start = IdleStart
    /\ pill2kill = FALSE
    /\ busOn = TRUE
    /\ isinit = FALSE
    /\ mirror = NoOverrides
    /\ published = NoOverrides
    /\ run = IdleRun
    /\ sub = IdleSub
    /\ od = NewOdEntry("RW", IntResult(0), FALSE)
    /\ chan = NewChannel
    /\ stop = IdleStop
    /\ ctl \in {[IdleCtl EXCEPT !.status = s] : s \in BOOLEAN}
    /\ conn = IdleConn
    /\ sync = IdleSync

NextCtl == CtlProcessSdoRead \/ CtlSdoReadDecode

SpecCtl == InitCtl /\ [][NextCtl]_vars

\* the main loop of the controller serving read requests
NextServe == MainloopRead

SpecServe == InitCtl /\ [][NextServe]_vars

----------------------------------------------------------------------------
(* A read and a write of the same object at the same time *)

\* objects both threads address: subindex 0x7F of the record of the first
\* chip, which does not exist, and the monitoring word (read-only) of the
\* chip 2 of SCB master 2, whose index 0x2222 has two equal bytes
SharedObjects == {<<8704, 127>>, <<8738, 1>>}

\* the thread in run calls sdoRead for one of the objects
PollSdoRead ==
    /\ call["poll"].pc \in {"idle", "done"}
    /\ ncalls < MaxCalls
    /\ \E o \in SharedObjects :
          call' = [call EXCEPT !["poll"] =
                      RunRead(ControllerNodeId, o[1], o[2], 1000)]
    /\ cnt' = Incr(cnt, "SDO read total")
    /\ ncalls' = ncalls + 1
    /\ UNCHANGED <<interface, canMsgQueue, bus, rx, ninject, serverVars>>

\* the thread of the subscription handler calls sdoWrite for one of the
\* objects
HandlerSdoWrite ==
    /\ call["handler"].pc \in {"idle", "done"}
    /\ ncalls < MaxCalls
    /\ \E o \in SharedObjects :
          call' = [call EXCEPT !["handler"] =
                      NewCall("write", ControllerNodeId, o[1], o[2], 5, 3000,
                              WriteRequestMsg(o[1], o[2], 5))]
    /\ cnt' = Incr(cnt, "SDO write total")
    /\ ncalls' = ncalls + 1
    /\ UNCHANGED <<interface, canMsgQueue, bus, rx, ninject, serverVars>>

NextShared ==
    \/ PollSdoRead
    \/ HandlerSdoWrite
    \/ \E t \in Threads : WriteMessageOk(t)
    \/ \E t \in Threads : WriteMessageFail(t)
    \/ \E t \in Threads : Scan(t)
    \/ \E t \in Threads : ResponseTimeout(t)
    \/ ControllerStep
    \/ ReadCanMessages
    \/ CbFunc

SpecShared == Init /\ [][NextShared]_vars

----------------------------------------------------------------------------
(* The controller and the requests of any bus participant *)

\* data of frames sent to the controller on cob_id 0x600 + n: a read, a
\* read with a stray bit in the command byte, writes the controller accepts
\* and rejects, and command bytes that are neither a read nor a write
\* (0x00, 0x60, 0x80)
RequestData ==
    {<<64, 0, 34, 18, 0, 0, 0, 0>>,
     <<65, 0, 34, 18, 0, 0, 0, 0>>,
     <<47, 0, 34, 18, 85, 0, 0, 0>>,
     <<47, 0, 16, 0, 5, 0, 0, 0>>,
     <<0, 0, 34, 18, 0, 0, 0, 0>>,
     <<96, 0, 34, 18, 0, 0, 0, 0>>,
     <<128, 0, 34, 18, 0, 0, 2, 6>>}

\* a bus participant writes a frame for the controller to the bus
SendRequest ==
    /\ ncalls < MaxCalls
    /\ \E d \in RequestData :
          bus' = Append(bus, Frame(SDO_RX + ControllerNodeId, d, 8, 0))
    /\ ncalls' = ncalls + 1
    /\ UNCHANGED <<interface, canMsgQueue, cnt, call, rx, ninject, serverVars>>

NextReply ==
    \/ SendRequest
    \/ ControllerStep
    \/ ReadCanMessages
    \/ CbFunc

SpecReply == Init /\ [][NextReply]_vars

----------------------------------------------------------------------------
(* The locks *)

\* what the steps of the threads leave alone
syncRest ==
    <<interface, canMsgQueue, cnt, call, bus, rx, ncalls, ninject, present,
      nodeIds, scan, start, busOn, isinit, mirrorVars, od, chan, stop, ctl,
      conn>>

\* the thread t is inside a call of the adapter library: read, writeWait
\* (Kvaser) or write (AnaGate), busOff, close
InLibrary(t) == sync.pc[t] \in {"read", "writeWait", "busOff", "close"}

\* readCanMessages on Kvaser, "with self.__kvaserLock: frame = self.__ch.read()":
\* the loop condition is true, the lock is acquired and read is entered
RecvRead ==
    /\ interface = "Kvaser"
    /\ sync.pc["recv"] = "idle"
    /\ ~pill2kill
    /\ sync.kvaserLock = ""
    /\ sync' = [sync EXCEPT !.kvaserLock = "recv", !.pc["recv"] = "read"]
    /\ UNCHANGED <<syncRest, pill2kill>>

\* read has returned and the with block is left: with a frame the thread
\* goes on to the queue, with CanNoMsg to the next test of the loop
RecvReadDone ==
    /\ sync.pc["recv"] = "read"
    /\ \E next \in {"frame", "idle"} :
          sync' = [sync EXCEPT !.kvaserLock = "", !.pc["recv"] = next]
    /\ UNCHANGED <<syncRest, pill2kill>>

\* the AnaGate library calls cbFunc with a frame
CbCalled ==
    /\ interface = "AnaGate"
    /\ sync.pc["recv"] = "idle"
    /\ sync' = [sync EXCEPT !.pc["recv"] = "frame"]
    /\ UNCHANGED <<syncRest, pill2kill>>

\* Variant of readCanMessages that appends inside the with block of
\* kvaserLock: the lock of the queue is acquired with kvaserLock held
RecvAppendNested ==
    /\ sync.pc["recv"] = "read"
    /\ sync.lock = ""
    /\ sync' = [sync EXCEPT !.lock = "recv", !.pc["recv"] = "append"]
    /\ UNCHANGED <<syncRest, pill2kill>>

\* "with self.__lock: self.__canMsgQueue.appendleft(...)" of readCanMessages
\* and of cbFunc: the lock of the queue is acquired
RecvAppend ==
    /\ sync.pc["recv"] = "frame"
    /\ sync.lock = ""
    /\ sync' = [sync EXCEPT !.lock = "recv", !.pc["recv"] = "append"]
    /\ UNCHANGED <<syncRest, pill2kill>>

\* the frame is appended and the with block is left
RecvAppendDone ==
    /\ sync.pc["recv"] = "append"
    /\ sync' = [sync EXCEPT !.lock = "", !.kvaserLock =
                                IF @ = "recv" THEN "" ELSE @,
                            !.pc["recv"] = "idle"]
    /\ UNCHANGED <<syncRest, pill2kill>>

\* readCanMessages finds pill2kill set and returns
RecvEnd ==
    /\ interface = "Kvaser"
    /\ sync.pc["recv"] = "idle"
    /\ pill2kill
    /\ sync' = [sync EXCEPT !.pc["recv"] = "ended"]
    /\ UNCHANGED <<syncRest, pill2kill>>

\* writeMessage as called by sdoRead (poll) or sdoWrite (handler). Kvaser:
\* "with self.__kvaserLock: self.__ch.writeWait(...)". AnaGate:
\* self.__ch.write(...) with no lock
SyncWrite(t) ==
    /\ sync.pc[t] = "idle"
    /\ IF interface = "Kvaser"
       THEN /\ sync.kvaserLock = ""
            /\ sync' = [sync EXCEPT !.kvaserLock = t, !.pc[t] = "writeWait"]
       ELSE sync' = [sync EXCEPT !.pc[t] = "writeWait"]
    /\ UNCHANGED <<syncRest, pill2kill>>

\* the write has returned, or raised: the with block is left. After a
\* request that was sent the call waits for the response, after an
\* exception it returns
SyncWriteDone(t) ==
    /\ sync.pc[t] = "writeWait"
    /\ \E next \in {"wait", "idle"} :
          sync' = [sync EXCEPT !.kvaserLock = IF @ = t THEN "" ELSE @,
                               !.pc[t] = next]
    /\ UNCHANGED <<syncRest, pill2kill>>

\* one pass of "while time.perf_counter() - t0 < timeout / 1000":
\* "with self.__lock:" is entered and the queue is scanned
SyncScan(t) ==
    /\ sync.pc[t] = "wait"
    /\ sync.lock = ""
    /\ sync' = [sync EXCEPT !.lock = t, !.pc[t] = "scan"]
    /\ UNCHANGED <<syncRest, pill2kill>>

\* the scan is over (a valid frame was deleted, or none was found) and the
\* with block is left: the call returns, or the loop makes another pass
SyncScanDone(t) ==
    /\ sync.pc[t] = "scan"
    /\ \E next \in {"wait", "idle"} :
          sync' = [sync EXCEPT !.lock = "", !.pc[t] = next]
    /\ UNCHANGED <<syncRest, pill2kill>>

\* stop is called: "with self.lock:" is entered and the residual messages
\* are counted
SyncStop ==
    /\ sync.pc["main"] = "idle"
    /\ sync.lock = ""
    /\ sync' = [sync EXCEPT !.lock = "main", !.pc["main"] = "count"]
    /\ UNCHANGED <<syncRest, pill2kill>>

\* the with block is left and pill2kill is set; on Kvaser stop then waits
\* for the receive thread, on AnaGate it goes on to close
SyncStopSet ==
    /\ sync.pc["main"] = "count"
    /\ sync' = [sync EXCEPT !.lock = "",
                            !.pc["main"] = IF interface = "Kvaser"
                                           THEN "join" ELSE "close"]
    /\ pill2kill' = TRUE
    /\ UNCHANGED syncRest

\* self.__canMsgThread.join() has returned: self.__ch.busOff() is called
SyncStopBusOff ==
    /\ sync.pc["main"] = "join"
    /\ sync.pc["recv"] = "ended"
    /\ sync' = [sync EXCEPT !.pc["main"] = "busOff"]
    /\ UNCHANGED <<syncRest, pill2kill>>

\* busOff has returned: self.__ch.close() is called
SyncStopClose ==
    /\ sync.pc["main"] = "busOff"
    /\ sync' = [sync EXCEPT !.pc["main"] = "close"]
    /\ UNCHANGED <<syncRest, pill2kill>>

\* close has returned and stop goes on to the server
SyncStopDone ==
    /\ sync.pc["main"] = "close"
    /\ sync' = [sync EXCEPT !.pc["main"] = "stopped"]
    /\ UNCHANGED <<syncRest, pill2kill>>

\* the server after start, on either interface
InitLock ==
    /\ InitSweep
    /\ mirror = NoOverrides
    /\ present = {ControllerNodeId}

NextLock ==
    \/ RecvRead
    \/ RecvReadDone
    \/ CbCalled
    \/ RecvAppend
    \/ RecvAppendDone
    \/ RecvEnd
    \/ \E t \in {"poll", "handler"} : SyncWrite(t)
    \/ \E t \in {"poll", "handler"} : SyncWriteDone(t)
    \/ \E t \in {"poll", "handler"} : SyncScan(t)
    \/ \E t \in {"poll", "handler"} : SyncScanDone(t)
    \/ SyncStop
    \/ SyncStopSet
    \/ SyncStopBusOff
    \/ SyncStopClose
    \/ SyncStopDone

SpecLock == InitLock /\ [][NextLock]_vars

----------------------------------------------------------------------------
(* getConnectedPSPPs and the loops after stop *)

\* getConnectedPSPPs is called with a node in self.__nodeIds: the first node,
\* the first SCB master, val = None, and the first sdoRead of
\* "while val is None"
GetConnectedPSPPs ==
    /\ conn.pc = "idle"
    /\ run.pc = "idle"
    /\ nodeIds # <<>>
    /\ call["poll"].pc \in {"idle", "done"}
    /\ conn' = [conn EXCEPT !.pc = "read", !.node = 1, !.scb = 0, !.reads = 1]
    /\ call' = [call EXCEPT !["poll"] = RunRead(nodeIds[1], 8192, 1, 3000)]
    /\ cnt' = Incr(cnt, "SDO read total")
    /\ UNCHANGED <<interface, canMsgQueue, bus, rx, ncalls, ninject, present,
                   nodeIds, scan, startVars, mirrorVars, od, chan, stop, ctl,
                   sync>>

\* sdoRead has returned to getConnectedPSPPs. None: the condition
\* "val is None" holds and the same read is made again. A value: it is
\* assigned to the attribute ConnectedPSPPs of the SCB master, and the next
\* statement, which subscripts the attribute serverWriting that MySCBMaster
\* does not define, raises AttributeError and ends getConnectedPSPPs. An
\* exception of sdoRead ends it as well
GetConnectedPSPPsVal ==
    /\ conn.pc = "read"
    /\ call["poll"].pc = "done"
    /\ LET val == call["poll"].result
           nodeId == nodeIds[conn.node]
       IN  IF val.kind = "raise"
           THEN /\ conn' = [conn EXCEPT !.pc = "raised", !.exc = val.exc]
                /\ UNCHANGED <<mirror, call, cnt>>
           ELSE IF val = None
           THEN /\ conn.reads < MaxConnReads
                /\ conn' = [conn EXCEPT !.reads = @ + 1]
                /\ call' = [call EXCEPT !["poll"] =
                              RunRead(nodeId, 8192, 1 + conn.scb, 3000)]
                /\ cnt' = Incr(cnt, "SDO read total")
                /\ UNCHANGED mirror
           ELSE /\ mirror' = Set(mirror,
                                 Path("ConnectedPSPPs", nodeId, conn.scb, 0, 0),
                                 val)
                /\ conn' = [conn EXCEPT !.pc = "raised",
                                        !.exc = "AttributeError"]
                /\ UNCHANGED <<call, cnt>>
    /\ UNCHANGED <<interface, canMsgQueue, bus, rx, ncalls, ninject, present,
                   nodeIds, scan, startVars, published, run, sub, od, chan,
                   stop, ctl, sync>>

\* The server after start has found the controller, which is on the bus or
\* no longer: no chip at all, or chips 0 and 2 on the first SCB master
InitShutdown ==
    /\ InitSweep
    /\ \A s \in 0..(NumSCB - 1) :
          Get(mirror, Path("ConnectedPSPPs", ControllerNodeId, s, 0, 0))
             \in IF s = 0 THEN {IntResult(0), IntResult(5)} ELSE {IntResult(0)}

\* The loops of the engine with stop called at any time: the poll loop, the
\* retry loop of getConnectedPSPPs and the receive loop
NextShutdown ==
    \/ Stop
    \/ GetConnectedPSPPs
    \/ GetConnectedPSPPsVal
    \/ Run
    \/ RunScb
    \/ RunMonitoring
    \/ RunStatus
    \/ WriteMessageOk("poll")
    \/ WriteMessageFail("poll")
    \/ Scan("poll")
    \/ ResponseTimeout("poll")
    \/ ControllerStep
    \/ ReadCanMessages
    \/ CbFunc

SpecShutdown == InitShutdown /\ [][NextShutdown]_vars




----------------------------------------------------------------------------
(* Properties of the SDO engine *)

\* the call of thread t takes a frame as its response in this step
JustMatched(t) ==
    call[t].pc = "wait" /\ call'[t].pc = "done" /\ call'[t].matched

\* C1: at most one SDO operation is outstanding per remote node: no two
\* threads wait for a response of the same node at the same time
C1_OneOutstandingPerNode ==
    \A t1, t2 \in Threads :
        (t1 # t2 /\ call[t1].pc = "wait" /\ call[t2].pc = "wait")
            => call[t1].nodeId # call[t2].nodeId

\* C2: when an SDO operation scans the queue and takes a frame as its
\* response, the frame is a response to its request and exactly that frame is
\* removed: every other frame stays, in the same order
C2_MatchedFrameRemoved ==
    [][\A t \in Threads :
          JustMatched(t) =>
             \E i \in 1..Len(canMsgQueue) :
                /\ canMsgQueue[i] = call'[t].ret
                /\ MessageValidFor(call[t], canMsgQueue[i]) = "valid"
                /\ \A j \in 1..(i - 1) :
                      MessageValidFor(call[t], canMsgQueue[j]) = "invalid"
                /\ Len(canMsgQueue') = Len(canMsgQueue) - 1
                /\ \A j \in 1..Len(canMsgQueue') :
                      canMsgQueue'[j] = IF j < i THEN canMsgQueue[j]
                                        ELSE canMsgQueue[j + 1]]_vars

\* a call has taken its response out of a queue that held another frame too
C2_Witness ==
    \E t \in Threads :
        /\ call[t].pc = "done"
        /\ call[t].matched
        /\ canMsgQueue # <<>>
        /\ call[t].ret \notin {canMsgQueue[i] : i \in 1..Len(canMsgQueue)}

\* the little-endian number a read response carries, by its command byte
ExpectedReadValue(d) ==
    CASE d[1] = 79 -> d[5]
      [] d[1] = 75 -> d[5] + 256 * d[6]
      [] d[1] = 71 -> d[5] + 256 * d[6] + 65536 * d[7]
      [] d[1] = 67 -> d[5] + 256 * d[6] + 65536 * d[7] + 16777216 * d[8]

AbortCode(d) == d[5] + 256 * d[6] + 65536 * d[7] + 16777216 * d[8]

MinBytes(v) ==
    IF v < 256 THEN 1 ELSE IF v < 65536 THEN 2 ELSE IF v < 16777216 THEN 3
    ELSE 4

\* C5: sdoWrite builds data [0x23 | ((4 - datasize) << 2), index low, index
\* high, subindex, value little-endian in 4 bytes] with datasize the minimum
\* number of bytes (1..4) that holds the value
C5_WriteRequestEncoding ==
    LET c == call["handler"]
    IN  (c.op = "write" /\ c.pc # "idle") =>
           c.msg = <<35 + 4 * (4 - MinBytes(c.value)), c.index % 256,
                     c.index \div 256, c.subindex,
                     c.value % 256, (c.value \div 256) % 256,
                     (c.value \div 65536) % 256,
                     (c.value \div 16777216) % 256>>

\* the controller answers the oldest request on the bus in this step
Answered ==
    /\ bus # <<>>
    /\ bus' = Tail(bus)
    /\ Len(rx') = Len(rx) + 1

\* C6: the abort frame the controller answers a write request with carries
\* the index and subindex of the request in the same byte order, so that the
\* sdoWrite that sent the request takes it as its response
C6_WriteAbortMatchesRequest ==
    [][LET req == Head(bus)
           resp == rx'[Len(rx')]
       IN  (Answered /\ ShiftRight(req.data[1], 5) # 2 /\ resp.data[1] = 128)
           => /\ resp.data[2] = req.data[2]
              /\ resp.data[3] = req.data[3]
              /\ resp.data[4] = req.data[4]
              /\ MessageValidWrite(resp, ControllerNodeId,
                                   req.data[2] + 256 * req.data[3],
                                   req.data[4]) = "valid"]_vars

\* the call of thread t ends in this step without its request being sent,
\* because the adapter reported an error
SendFailed(t) ==
    /\ call[t].pc = "request"
    /\ IsByteList(call[t].msg)
    /\ call'[t].pc = "done"

\* C7: when the request cannot be sent, sdoRead and sdoWrite return their
\* failure value and count one request timeout; they neither raise nor scan
\* the queue nor return a success
C7_SendFailureReturnsFailure ==
    [][\A t \in Threads :
          SendFailed(t) =>
             /\ call'[t].result = Failure(call[t].op)
             /\ cnt' = Incr(cnt, RequestTimeoutKey(call[t].op))
             /\ ~call'[t].scanned
             /\ canMsgQueue' = canMsgQueue]_vars

\* C8 as stated: an sdoRead with timeout 0 ends with the response-timeout
\* failure, counts 'SDO read response timeout' once and never scans the queue
C8_TimeoutZeroResponseTimeout ==
    [][(call["poll"].op = "read" /\ call["poll"].timeout = 0
          /\ call["poll"].pc # "done" /\ call'["poll"].pc = "done")
        => /\ call'["poll"].result = None
           /\ ~call'["poll"].scanned
           /\ cnt' = Incr(cnt, "SDO read response timeout")]_vars

\* C8: an sdoRead with timeout 0 whose request has been sent does nothing but
\* end with None and count 'SDO read response timeout' once, without a scan
\* of the queue; when its request cannot be sent it ends without a scan and
\* without counting a response timeout
C8_TimeoutZeroAfterSend ==
    [][(call["poll"].op = "read" /\ call["poll"].timeout = 0
          /\ call'["poll"] # call["poll"])
        => /\ call["poll"].pc = "wait" =>
                 /\ call'["poll"].pc = "done"
                 /\ call'["poll"].result = None
                 /\ cnt' = Incr(cnt, "SDO read response timeout")
           /\ call["poll"].pc = "request" /\ call'["poll"].pc = "done" =>
                 /\ cnt'["SDO read response timeout"]
                       = cnt["SDO read response timeout"]
           /\ call'["poll"].op = "read" /\ call'["poll"].timeout = 0 =>
                 /\ ~call'["poll"].scanned
                 /\ ~call'["poll"].matched
                 /\ canMsgQueue' = canMsgQueue]_vars

\* the read of 0x1000:0 of node 10 with timeout 0 has ended with None while
\* the frame that answers it lies in the queue
C8_Witness ==
    LET c == call["poll"]
    IN  /\ c.op = "read" /\ c.timeout = 0 /\ c.pc = "done"
        /\ c.sent # <<>>
        /\ c.result = None
        /\ ~c.scanned
        /\ cnt["SDO read response timeout"] = 1
        /\ \E i \in 1..Len(canMsgQueue) :
              MessageValidFor(c, canMsgQueue[i]) = "valid"

\* an error frame without data
IsEmptyErrorFrame(f) ==
    f.dlc = 0 /\ BitAnd(f.flag, canMSG_ERROR_FRAME) # 0

\* C9: an error frame with dlc 0 is never taken as the response of an SDO
\* operation
C9_ErrorFrameNeverMatched ==
    \A t \in Threads :
        call[t].matched => ~IsEmptyErrorFrame(call[t].ret)

\* a call has scanned a queue that holds an error frame with dlc 0 and the
\* COB-ID of its response, and has not taken it
C9_Witness ==
    \E t \in Threads :
        /\ call[t].scanned
        /\ ~call[t].matched
        /\ \E i \in 1..Len(canMsgQueue) :
              /\ IsEmptyErrorFrame(canMsgQueue[i])
              /\ canMsgQueue[i].cobid = SDO_TX + call[t].nodeId

\* the capacity the documentation of canMsgQueue gives
DocumentedQueueLen == 1000

\* C10: the receive queue holds 1000 frames: it never holds more, and a push
\* onto a queue with fewer than 1000 frames discards none
C10_Capacity1000 ==
    [][(rx # <<>> /\ rx' = Tail(rx) /\ canMsgQueue' # canMsgQueue)
        => /\ Len(canMsgQueue') <= DocumentedQueueLen
           /\ Len(canMsgQueue) < DocumentedQueueLen =>
                 canMsgQueue' = <<Head(rx)>> \o canMsgQueue]_vars

\* the frame is pushed in this step by the receive thread or the callback
Pushed(f) ==
    /\ rx # <<>>
    /\ f = Head(rx)
    /\ rx' = Tail(rx)
    /\ canMsgQueue' # canMsgQueue

\* the frames of a queue
FramesOf(q) == {q[i] : i \in 1..Len(q)}

\* the frame of the queue that arrived first (byte 1 of a traffic frame is
\* its arrival number)
Oldest(q) ==
    CHOOSE f \in FramesOf(q) : \A g \in FramesOf(q) : f.data[2] <= g.data[2]

\* C11: a push onto a full queue discards exactly one frame, the oldest
\* frame of the queue, and stores the pushed frame
C11_FullPushDropsOldest ==
    [][(Pushed(Head(rx)) /\ Len(canMsgQueue) = QueueMaxLen)
        => /\ Len(canMsgQueue') = QueueMaxLen
           /\ canMsgQueue'[1] = Head(rx)
           /\ FramesOf(canMsgQueue')
                 = (FramesOf(canMsgQueue) \ {Oldest(canMsgQueue)})
                      \cup {Head(rx)}
           /\ \A i \in 2..QueueMaxLen :
                 canMsgQueue'[i] = canMsgQueue[i - 1]]_vars

\* the queue is full, holds the frame pushed last at its left end and no
\* longer holds the frame that arrived first
C11_Witness ==
    /\ Len(canMsgQueue) = QueueMaxLen
    /\ ninject > QueueMaxLen
    /\ rx = <<>>
    /\ canMsgQueue[1].data[2] = ninject - 1
    /\ \A i \in 1..Len(canMsgQueue) : canMsgQueue[i].data[2] # 0

\* the ascending list of the members of a set of numbers
RECURSIVE Ascending(_)
Ascending(S) ==
    IF S = {} THEN <<>>
    ELSE LET m == CHOOSE x \in S : \A y \in S : x <= y
         IN  <<m>> \o Ascending(S \ {m})

\* C12: after scanNodes completes, the node list is the ascending list of
\* the node ids whose read of 0x1000:0 returned a value (0 included); the
\* reads were issued one at a time in ascending order of the node id
C12_ScanListsResponders ==
    /\ scan.pc \in {"wait", "done"} =>
          /\ scan.asked = [i \in 1..Len(scan.asked) |-> i]
          /\ call["poll"].nodeId = scan.asked[Len(scan.asked)]
          /\ call["poll"].index = 4096 /\ call["poll"].subindex = 0
    /\ scan.pc = "done" =>
          /\ Len(scan.asked) = MaxNodeId
          /\ nodeIds = Ascending(scan.got)

\* a scan has completed in which node 1 answered with the value 0 and is
\* listed, and the read of node 2, which is connected, failed
C12_Witness ==
    /\ scan.pc = "done"
    /\ present = {1, 2}
    /\ DeviceType(1) = 0
    /\ scan.got = {1}
    /\ nodeIds = <<1>>

\* C13 as stated: two consecutive scans of the same bus give the same list,
\* whatever the timing of the responses
C13_RescanSameList ==
    (scan.pc = "done" /\ scan.runs >= 2) => nodeIds = scan.prev

\* C13: two consecutive scans of the same bus give the same list, the
\* ascending list of the connected nodes, when in both scans the read of
\* every connected node returned a value; a node that is not connected is
\* never listed
C13_RescanSameWhenAnswered ==
    /\ scan.got \subseteq present
    /\ scan.pc = "done" => \A i \in 1..Len(nodeIds) : nodeIds[i] \in present
    /\ (scan.pc = "done" /\ scan.runs >= 2
          /\ present \subseteq scan.got /\ present \subseteq scan.prevGot)
       => /\ nodeIds = scan.prev
          /\ nodeIds = Ascending(present)

\* two scans of a bus with node 2 alone have completed with the same list
C13_Witness ==
    /\ scan.pc = "done"
    /\ scan.runs = 2
    /\ present = {2}
    /\ scan.got = {2}
    /\ scan.prevGot = {2}
    /\ nodeIds = <<2>>
    /\ scan.prev = <<2>>

\* C14: start makes at most three scan attempts: after the third empty scan
\* it logs the fatal error and returns instead of scanning again
C14_AtMostThreeScans ==
    /\ start.attempts <= 3
    /\ (start.attempts = 3 /\ start.pc = "loop") => start.count = 3

----------------------------------------------------------------------------
(* C15 *)

\* the chips of an SCB master the current pass of the poll loop has entered
\* the loop body for, in the order of the visits
VisitedChips(scb) ==
    LET v == SelectSeq(run.visited, LAMBDA x : x[1] = scb)
    IN  [i \in 1..Len(v) |-> v[i][2]]

\* the chips i in 0..15 with bit i of the bitmap set, in ascending order
SetBits(val) ==
    SelectSeq([i \in 1..16 |-> i - 1], LAMBDA i : (val \div Pow2(i)) % 2 = 1)

\* C15: when the poll loop is through with an SCB master, with every
\* sdoRead having returned to it, it has visited exactly the chips whose bit
\* is set in the bitmap of that SCB master, bit 0 being chip 0, in ascending
\* order (the chips 0 and 2 for the bitmap 0x0005)
C15_SweepVisitsSetBits ==
    (run.pc = "raised" /\ call["poll"].result.kind # "raise")
        => VisitedChips(run.scb) =
              SetBits(Get(mirror, Path("ConnectedPSPPs", nodeIds[run.node],
                                       run.scb, 0, 0)).val)

----------------------------------------------------------------------------
(* C16 *)

\* run has assigned a monitoring value of the chip it is visiting: the
\* monitoring word is the result of the last sdoRead
MonitoringAssigned ==
    /\ run.pc = "raised"
    /\ run.exc = "AttributeError"
    /\ run.leaf = 1

\* the attribute of the first name of coc.PSPPMONVALS of the chip run is
\* visiting
VisitedMonitoringPath ==
    Path("MonitoringData", nodeIds[run.node], run.scb, run.chips[run.pos], 0)

----------------------------------------------------------------------------
(* C17 *)

\* C17: when the sdoRead of a leaf of a chip (monitoring word, status) has
\* returned None to the poll loop, the step of the loop that takes this
\* result changes neither a mirror attribute nor a node value, and the sweep
\* goes on with the next leaf
C17_FailedReadKeepsSweep ==
    [][(/\ run.pc = "leaf"
        /\ call["poll"].pc = "done"
        /\ call["poll"].result = None
        /\ run' # run)
          => /\ mirror' = mirror
             /\ published' = published
             /\ run'.pc = "leaf"]_vars

----------------------------------------------------------------------------
(* C18 *)

\* the step is a call of datachange_notification with the oldest pending
\* notification
HandlerCalled ==
    /\ sub.pc = "idle"
    /\ sub.queue # <<>>
    /\ sub'.nwrites = sub.nwrites
    /\ sub' # sub

\* C18: a call of datachange_notification with a value equal to the value
\* of the mirror attribute does nothing: no sdoWrite is started, no frame is
\* sent, no counter changes, and the mirror attribute and the node keep
\* their values
C18_SameValueNoOp ==
    [][(/\ HandlerCalled
        /\ Head(sub.queue).val = Get(mirror, Head(sub.queue).path))
          => /\ call' = call
             /\ bus' = bus
             /\ cnt' = cnt
             /\ mirror' = mirror
             /\ published' = published
             /\ sub'.pc = "idle"]_vars

\* a client has written 0 to the bitmap of SCB master 0, whose mirror
\* attribute is 0, and the handler has returned at the comparison
C18_Witness ==
    /\ isinit
    /\ sub.outcome = "same"
    /\ sub.nwrites = 1
    /\ sub.path = Path("ConnectedPSPPs", ControllerNodeId, 0, 0, 0)
    /\ sub.val = IntResult(0)
    /\ sub.mirrorval = IntResult(0)

----------------------------------------------------------------------------
(* C19 *)

\* the handler's sdoWrite for the attribute and the value has returned True
\* on a response of the controller that confirms the write (0x60)
WriteSucceeded(path, val) ==
    /\ sub.pc = "write"
    /\ sub.path = path
    /\ call["handler"].pc = "done"
    /\ call["handler"].op = "write"
    /\ call["handler"].nodeId = path.nodeId
    /\ call["handler"].index = SdoTarget(path).index
    /\ call["handler"].subindex = SdoTarget(path).subindex
    /\ IntResult(call["handler"].value) = val
    /\ call["handler"].result = BoolResult(TRUE)
    /\ call["handler"].matched
    /\ Byte(call["handler"].ret.data, 0) = 96

\* C19: a mirror attribute takes a value written by a client only in the
\* step in which the sdoWrite of this value to the index and subindex mapped
\* to the attribute has returned success; the attribute is then a writable
\* register, the bitmap of an SCB master or ADCTRIM
C19_MirrorSetAfterWrite ==
    [][\A path \in (DOMAIN mirror) \cup (DOMAIN mirror') :
          Get(mirror', path) # Get(mirror, path)
             => /\ Forwarded(path)
                /\ WriteSucceeded(path, Get(mirror', path))]_vars

\* the write of 85 to register 2 of chip 0 was confirmed by the controller
\* and the mirror attribute and the node hold 85
C19_Witness ==
    /\ sub.outcome = "applied"
    /\ sub.path = Path("Regs", ControllerNodeId, 0, 0, 2)
    /\ Get(mirror, sub.path) = IntResult(85)
    /\ Get(published, sub.path) = IntResult(85)
    /\ call["handler"].result = BoolResult(TRUE)

----------------------------------------------------------------------------
(* C20 *)

\* the step ends a call of datachange_notification for a change by a client
\* (the value differs from the mirror attribute and is the value of the
\* node) that was not applied to the hardware: sdoWrite was not called, or
\* did not return success
ChangeRejected ==
    \/ /\ HandlerCalled
       /\ sub'.outcome = "refused"
    \/ /\ sub.pc = "write"
       /\ sub'.pc = "idle"
       /\ sub'.outcome \in {"restored", "raised"}

\* C20: when the handler is through with a change by a client that was not
\* applied to the hardware, the node of the attribute holds the value of
\* the mirror attribute again
C20_RejectedSnapsBack ==
    [][ChangeRejected
          => Get(published', sub'.path) = Get(mirror', sub'.path)]_vars

----------------------------------------------------------------------------
(* C21 *)

\* the attributes the poll loop assigns: the monitoring values and the
\* status of a chip
PollWritten(path) == path.attr \in {"MonitoringData", "Status"}

----------------------------------------------------------------------------
(* C22 *)

\* C22: for an entry that is RW a read after a write returns the value
\* written last; the value setter fails for an entry that is RO or CONST;
\* for an entry that is WO the value setter succeeds and the read fails
C22_AccessByAttribute ==
    /\ (od.attribute = "RW" /\ od.op = "get" /\ od.lastset # Unset)
          => od.out = od.lastset
    /\ (od.attribute \in {"RO", "CONST"} /\ od.op = "set"
           /\ od.path = "value")
          => od.out.kind = "raise"
    /\ (od.attribute = "WO" /\ od.op = "set" /\ od.path = "value")
          => od.out = None
    /\ (od.attribute = "WO" /\ od.op = "get") => od.out.kind = "raise"

\* the same for the entries of a dictionary without direct access that keep
\* their value in one place, the subentries
C22_SubEntryAccessByAttribute ==
    (od.cls = "odSubEntry" /\ ~od.direct_access) => C22_AccessByAttribute

\* a VAR entry that is RW has been written and is read
C22_Witness ==
    /\ od.cls = "odEntry" /\ od.attribute = "RW" /\ ~od.direct_access
    /\ od.op = "get" /\ od.lastset = IntResult(2) /\ od.out = IntResult(0)

----------------------------------------------------------------------------
(* C23 *)

\* the entry may not be written: it is RO or CONST, or a reserved subentry
Protected(e) == e.attribute \in {"RO", "CONST"} \/ e.reserved

\* a step leaves both places an entry keeps a value in as they are
StoredUnchanged == od'.val = od.val /\ od'.value = od.value

\* C23 as stated: every write of a protected entry, through any write path,
\* fails with an error and leaves the stored value unchanged, and a CONST
\* entry never changes
C23_ProtectedWriteFailsAlways ==
    [][/\ (OdWrite /\ Protected(od))
             => (od'.out.kind = "raise" /\ StoredUnchanged)
       /\ od.attribute = "CONST" => StoredUnchanged]_vars

\* C23: in a dictionary created without direct access, every write of a
\* protected entry, through any write path, fails with an error and leaves
\* the stored value unchanged, and a CONST entry never changes
C23_ProtectedWriteFails ==
    [][~od.direct_access
          => /\ (OdWrite /\ Protected(od))
                   => (od'.out.kind = "raise" /\ StoredUnchanged)
             /\ od.attribute = "CONST" => StoredUnchanged]_vars

\* a reserved subentry of such a dictionary has been written through item
\* assignment on its entry, and a read has followed
C23_Witness ==
    /\ od.reserved /\ ~od.direct_access
    /\ od.nops = 2 /\ od.op = "get" /\ od.lastset = Unset
    /\ od.value = None

----------------------------------------------------------------------------
(* C24 *)

\* close is called on a channel right after close
SecondClose == ChannelClose /\ stop.last = "close"

\* stop is called right after stop
SecondStop == Stop /\ stop.last = "stop"

\* a step leaves the channel and the flag of the bus as they are
TransportUnchanged ==
    /\ chan'.deviceOpen = chan.deviceOpen
    /\ chan'.handle = chan.handle
    /\ busOn' = busOn

\* C24: a second close of the AnaGate channel returns normally and leaves the
\* channel as the first close left it, the device not open and the state
\* 'DISCONNECTED'; a second stop returns normally and leaves the channel and
\* the server as the first stop left them, the bus off and pill2kill set
C24_SecondCloseSame ==
    [][/\ SecondClose
             => /\ chan'.out = None
                /\ TransportUnchanged
                /\ ~chan'.deviceOpen /\ State(chan') = "DISCONNECTED"
       /\ SecondStop
             => /\ stop'.out = None
                /\ TransportUnchanged
                /\ ~busOn' /\ pill2kill /\ pill2kill']_vars

\* close has been called twice on the channel of an AnaGate server, then
\* stop twice
C24_Witness ==
    /\ interface = "AnaGate"
    /\ stop.calls = 2 /\ stop.last = "stop" /\ chan.closes = 3
    /\ chan.out = None /\ ~chan.deviceOpen /\ ~busOn

----------------------------------------------------------------------------
(* C25 *)

\* C25: when __exit__ has been left, for either interface and whatever the
\* exception the with statement was left with, stop has run: pill2kill is
\* set (which ends the receive thread), the bus is off and the channel is
\* closed
C25_ExitRunsStop ==
    [][Exit => /\ pill2kill'
               /\ ~busOn'
               /\ chan'.handle = "closed" /\ ~chan'.deviceOpen]_vars

\* the same for an AnaGate server whose channel has not been closed or
\* opened again since it was created
C25_ExitRunsStopFirstUse ==
    [][(Exit /\ interface = "AnaGate" /\ stop.last = "")
          => /\ pill2kill'
             /\ ~busOn'
             /\ chan'.handle = "closed" /\ ~chan'.deviceOpen]_vars

----------------------------------------------------------------------------
(* C26 *)

\* index and subindex of the request the controller has answered
CtlIndex == IntFromBytesLittle(<<Byte(ctl.msg, 1), Byte(ctl.msg, 2)>>)
CtlSubindex == Byte(ctl.msg, 3)

\* the controller has answered a read of a subindex other than 2 of a chip
\* whose status is false
ReadOfDisconnectedChip ==
    /\ ctl.pc \in {"answered", "decoded"}
    /\ CtlIndex \in 8704..8767 /\ CtlSubindex # 2
    /\ ~ctl.status

\* C26: the answer to a read of a subindex other than 2 of a chip whose
\* status is false is an abort with code 0x06060000, and sdoRead returns no
\* data for it
C26_DisconnectedChipAborts ==
    ReadOfDisconnectedChip
       => /\ ctl.ret = SdoAbortMessage(ToBytesLittle(CtlIndex, 2), CtlSubindex,
                                       SAC_HARDWARE_ERROR)
          /\ ctl.pc = "decoded" => ctl.result = None

----------------------------------------------------------------------------
(* C27 *)

----------------------------------------------------------------------------
(* C28 *)

\* the poll loop is running
InPollLoop == run.pc \in {"scb", "leaf"}

\* C28: when three passes in a row have come to their end without a read
\* that returned a value (a pass with such a read does not come to its end),
\* the poll loop has been left and scanNodes is called again
C28_FailedSweepsRescan ==
    run.sweeps >= 3 => (~InPollLoop /\ scan.runs > 0)

----------------------------------------------------------------------------
(* C29 *)

\* the frame of the queue q at the greatest (least) of the positions s; the
\* left end, position 1, is where appendleft puts the newest frame
OldestAt(s) == CHOOSE i \in s : \A j \in s : i >= j
NewestAt(s) == CHOOSE i \in s : \A j \in s : i <= j

ReceiveIterates == interface = "Kvaser" /\ Len(rx') < Len(rx)

\* the poll loop begins another pass of "while True"
RunIterates == run'.sweeps > run.sweeps

\* the retry loop of getConnectedPSPPs makes another sdoRead
RetryIterates == conn.reads > 0 /\ conn'.reads > conn.reads

\* C30 as stated: once pill2kill is set, none of the three loops
\* (readCanMessages, run, the retry loop of getConnectedPSPPs) begins
\* another iteration
C30_LoopsObserveFlag ==
    [][pill2kill => ~(ReceiveIterates \/ RunIterates \/ RetryIterates)]_vars

\* C30: once pill2kill is set, the receive loop readCanMessages begins no
\* further iteration
C30_ReceiveLoopObservesFlag ==
    [][pill2kill => ~ReceiveIterates]_vars

\* stop has set pill2kill on Kvaser and a frame waits at the adapter
C30_Witness ==
    /\ pill2kill
    /\ stop.calls > 0
    /\ interface = "Kvaser"
    /\ rx # <<>>

\* C31: on Kvaser a thread inside the adapter library holds kvaserLock, so
\* at most one thread is inside the library
C31_LibraryUnderLock ==
    interface = "Kvaser"
       => /\ \A t \in SyncThreads : InLibrary(t) => sync.kvaserLock = t
          /\ Cardinality({t \in SyncThreads : InLibrary(t)}) <= 1

\* C32: a thread that holds the lock of the queue is appending, scanning
\* (and deleting) or counting, is not inside the adapter library and does
\* not hold kvaserLock; a thread that holds kvaserLock does not hold the
\* lock of the queue
C32_LocksNotNested ==
    \A t \in SyncThreads :
       sync.lock = t
          => /\ sync.pc[t] \in {"append", "scan", "count"}
             /\ ~InLibrary(t)
             /\ sync.kvaserLock # t

\* the receive thread holds the lock of the queue while another thread is
\* inside writeWait with kvaserLock
C32_Witness ==
    /\ sync.lock = "recv"
    /\ sync.pc["recv"] = "append"
    /\ \E t \in {"poll", "handler"} :
          sync.kvaserLock = t /\ sync.pc[t] = "writeWait"

\* the request the controller has just handled addresses an existing
\* compound entry at a subindex that is past its end or reserved
GapRequest ==
    /\ ctl.pc \in {"served", "raised"}
    /\ CtlIndex \in OdIndices
    /\ ~OdIsVar(CtlIndex)
    /\ \/ ~OdContainsSub(CtlIndex, CtlSubindex)
       \/ OdReserved(CtlIndex, CtlSubindex)

\* C33: a read of a subindex that is absent from, or reserved in, an
\* existing compound entry is answered with the abort "subindex does not
\* exist", and the main loop goes on
C33_GapReadAborts ==
    GapRequest
       => /\ ctl.pc = "served"
          /\ ctl.ret = SdoAbortMessage(ToBytesLittle(CtlIndex, 2), CtlSubindex,
                                       SAC_SUBINDEX)

\* start is in a scan that follows a restart on Kvaser
ScanAfterRestart ==
    /\ interface = "Kvaser"
    /\ start.pc = "scan"
    /\ start.attempts >= 2

\* C34: during a scan that follows a restart on Kvaser the receive thread
\* is running, that is, the condition of its loop holds: pill2kill is not
\* set
C34_ReceiveThreadRunsAfterRestart ==
    ScanAfterRestart => ~pill2kill

\* the request the call of thread t has written is still on the bus: no
\* controller has seen it, so no frame is a reply to it
RequestOnBus(t) ==
    /\ call[t].sent # <<>>
    /\ bus # <<>>
    /\ bus[Len(bus)] = call[t].sent[Len(call[t].sent)]

\* C35: with no frame of another bus participant in play, the frame a call
\* takes as its response is a reply to its own request: it is not taken
\* while that request is still on its way to the controller
C35_MatchedAnswersOwnRequest ==
    [][\A t \in Threads :
          (JustMatched(t) /\ ninject = 0) => ~RequestOnBus(t)]_vars

\* the request the call of thread t has written is on the bus, not yet
\* seen by the controller
OwnRequestPending(t) ==
    /\ call[t].sent # <<>>
    /\ \E i \in 1..Len(bus) : bus[i] = call[t].sent[Len(call[t].sent)]

\* the threads t and u wait for a response at the same node, index and
\* subindex, one for a read and the other for a write
SameTarget(t, u) ==
    /\ t # u
    /\ call[t].pc = "wait"
    /\ call[u].pc = "wait"
    /\ call[t].op # call[u].op
    /\ call[t].nodeId = call[u].nodeId
    /\ call[t].index = call[u].index
    /\ call[t].subindex = call[u].subindex

\* C36: while a read and a write wait at the same object, an abort frame is
\* taken only by the call whose request it answers: a call does not take
\* an abort while its own request has not reached the controller
C36_AbortTakenByOwnCall ==
    [][\A t, u \in Threads :
          (SameTarget(t, u) /\ JustMatched(t) /\ IsAbort(call'[t].ret.data))
             => ~OwnRequestPending(t)]_vars

\* C37: the command byte of a write request is one of 0x23, 0x27, 0x2B,
\* 0x2F, and the data the controller decodes from the request is the value
\* sdoWrite was called with
C37_WriteRequestDecodes ==
    LET c == call["handler"]
    IN  (c.op = "write" /\ c.pc # "idle")
           => /\ Byte(c.msg, 0) \in {35, 39, 43, 47}
              /\ SdoWriteData(c.msg) = c.value

\* C38: no call ends with the IndexError of a queued frame: a call that has
\* begun to scan ends with a frame it matched or with a response timeout
C38_ScanSkipsShortFrames ==
    \A t \in Threads :
       (call[t].pc = "done" /\ call[t].scanned)
          => \/ call[t].matched
             \/ call[t].result = Failure(call[t].op)

\* C39: getConnectedPSPPs goes on to the next SCB master after a read that
\* returned: unless sdoRead itself raised, the call is not left by an
\* exception, which start does not catch and which keeps it from entering
\* run
C39_BitmapReadReturns ==
    [][(conn.pc = "read" /\ conn'.pc = "raised")
          => call["poll"].result.kind = "raise"]_vars

\* C40: the frame the controller with node id n sends in reply to a frame
\* received on cob_id 0x600 + n has cob_id 0x580 + n
C40_ReplyCobId ==
    [][(Answered /\ Len(rx') > Len(rx))
          => rx'[Len(rx')].cobid = SDO_TX + (Head(bus).cobid - SDO_RX)]_vars

=========================================================================
